---------------------------- MODULE Spec2Model ----------------------------
(***************************************************************************)
(* Model of pg-migration: the schema transfer procedure                    *)
(* (pkg/schema/schema.go: the idempotency rewriter, the destructive reset, *)
(* the dump and restore invocations and their orchestration), the          *)
(* replication setup (pkg/replication/replication.go), the loading of the  *)
(* connection descriptors (pkg/config/config.go) and the command-line tool *)
(* that drives them (cmd/migrate/main.go).                                 *)
(*                                                                         *)
(* Texts are TLA+ strings and are processed character by character, the    *)
(* way strings.Replace processes bytes.  Operators take the values they    *)
(* work on as parameters, so that each is evaluated once.                  *)
(***************************************************************************)
EXTENDS Integers, Sequences, FiniteSets, TLC

VARIABLES
    rwIn,       \* the text the last call of processSchemaFile read (first: the text given)
    rwOut,      \* what the last call of processSchemaFile wrote to its output
    rwErr,      \* what the last call of processSchemaFile returned ("nil": no error)
    rwIo,       \* whether the last call's read and write succeeded
    rwPass      \* number of calls of processSchemaFile made so far

rwVars == <<rwIn, rwOut, rwErr, rwIo, rwPass>>

VARIABLES
    source,       \* the objects of the source database
    target,       \* the objects of the target database
    call,         \* the public function of SchemaHandler being (or last) called
    pc,           \* the step the call is about to make ("idle": no call running)
    schemaFile,   \* the schema file or reader content given to the call
    dumpFile,     \* the dump file under the temporary directory
    script,       \* the rewritten script that is handed to psql
    log,          \* the steps the call has made so far, in order
    result,       \* what the last call returned ("nil": no error)
    tmp,          \* the temporary files and directories that exist
    targetAtCall, \* the target database when the call started
    envOk,        \* no step of the call was failed by the environment so far
    ncalls,       \* number of calls begun so far
    done,         \* the last DumpAndRestoreSchema calls (at most two) made in a row
                  \* with no fault of the environment
    resetRun,     \* the resets made since psql last ran a restore script
    beforeRestore,\* the target database when psql last started on a restore script
    environ       \* the environment of the tool's own process (os.Environ())

shVars == <<source, target, call, pc, schemaFile, dumpFile, script, log, result,
            tmp, targetAtCall, envOk, ncalls, done, resetRun,
            beforeRestore, environ>>

VARIABLES
    mainPc,     \* where main() stands ("none": the tool is not running)
    flags,      \* the operation flags and --schema-file of the run
    out,        \* what the run has logged so far
    exitCode,   \* the exit status of the run (-1: still running)
    runs,       \* number of runs of the tool started so far
    disk        \* the file at the path --schema-file names

mainVars == <<mainPc, flags, out, exitCode, runs, disk>>

VARIABLES
    repl,       \* publications and slots of the source, subscriptions of the target,
                \* the extension on both, the target's wal_level
    rlog,       \* the statements the last SetupReplication issued, in order
    rdone       \* how the last SetupReplication calls (at most two) ended: "ok", "refused"
                \* by a server, or "fault" of the environment

replVars == <<repl, rlog, rdone>>

VARIABLES
    cfgIn,      \* the arguments and environment of the last loading of a descriptor
    cfgOut      \* what that loading returned

cfgVars == <<cfgIn, cfgOut>>

\* What the steps of a call of the schema handler leave alone.
besideSh == <<rwVars, mainVars, replVars, cfgVars>>

vars == <<rwVars, shVars, mainVars, replVars, cfgVars>>

(***************************************************************************)
(* Bounds                                                                  *)
(***************************************************************************)
\* Number of lines of a text handed to the rewriter.
MaxStmts == 2

\* Number of times the rewriter is applied to its own output.
MaxPasses == 2

\* Number of calls of the public functions of SchemaHandler in one run.
MaxCalls == 2

\* Runs of the command-line tool.
MaxRuns == 2

(***************************************************************************)
(* strings.Replace(s, old, new, -1): every non-overlapping occurrence of   *)
(* old, found left to right, is replaced by new.                           *)
(***************************************************************************)
HasPrefixAt(s, p, i) ==
    /\ i + Len(p) - 1 <= Len(s)
    /\ SubSeq(s, i, i + Len(p) - 1) = p

Least(S) == IF S = {} THEN 0 ELSE CHOOSE j \in S : \A k \in S : j <= k

\* Index of the first occurrence of old in s at or after position i (0: none).
IndexFrom(s, old, i) ==
    Least({ j \in i..(Len(s) - Len(old) + 1) : HasPrefixAt(s, old, j) })

RECURSIVE ReplaceFrom(_, _, _, _)
ReplaceAt(s, old, new, i, j) ==
    IF j = 0 THEN SubSeq(s, i, Len(s))
    ELSE SubSeq(s, i, j - 1) \o new \o ReplaceFrom(s, old, new, j + Len(old))

ReplaceFrom(s, old, new, i) == ReplaceAt(s, old, new, i, IndexFrom(s, old, i))

Replace(s, old, new) == ReplaceFrom(s, old, new, 1)

(***************************************************************************)
(* processSchemaFile: the six replacements, applied one after the other    *)
(* to the whole document.                                                  *)
(***************************************************************************)
RewriteNoTableRule(sqlContent) ==
    LET s1 == Replace(sqlContent, "CREATE SCHEMA ", "CREATE SCHEMA IF NOT EXISTS ")
        s2 == Replace(s1, "CREATE FUNCTION ", "CREATE OR REPLACE FUNCTION ")
        s4 == Replace(s2, "CREATE INDEX ", "CREATE INDEX IF NOT EXISTS ")
        s5 == Replace(s4, "CREATE SEQUENCE ", "CREATE SEQUENCE IF NOT EXISTS ")
        s6 == Replace(s5, "CREATE VIEW ", "CREATE OR REPLACE VIEW ")
    IN  s6

RewriteContent(sqlContent) ==
    LET s1 == Replace(sqlContent, "CREATE SCHEMA ", "CREATE SCHEMA IF NOT EXISTS ")
        s2 == Replace(s1, "CREATE FUNCTION ", "CREATE OR REPLACE FUNCTION ")
        s3 == Replace(s2, "CREATE TABLE ", "CREATE TABLE IF NOT EXISTS ")
        s4 == Replace(s3, "CREATE INDEX ", "CREATE INDEX IF NOT EXISTS ")
        s5 == Replace(s4, "CREATE SEQUENCE ", "CREATE SEQUENCE IF NOT EXISTS ")
        s6 == Replace(s5, "CREATE VIEW ", "CREATE OR REPLACE VIEW ")
    IN  s6

\* The result of one call: what reached the output and the error returned.
\* io.ReadAll may fail (nothing is written); output.Write may fail.
processSchemaFile(input, readOk, writeOk) ==
    IF ~readOk THEN [out |-> "", err |-> "failed to read input file"]
    ELSE IF ~writeOk THEN [out |-> "", err |-> "failed to write to output file"]
    ELSE [out |-> RewriteContent(input), err |-> "nil"]

(***************************************************************************)
(* The SQL client and server, as far as the schema scripts need them.      *)
(* psql sends the script statement by statement (split at ';'); the        *)
(* server reads a CREATE statement as                                      *)
(*   CREATE [OR REPLACE] [UNIQUE] <kind> [IF NOT EXISTS] <name> ...        *)
(***************************************************************************)
RECURSIVE Split(_, _)
SplitAt(s, sep, j) ==
    IF j = 0 THEN <<s>>
    ELSE <<SubSeq(s, 1, j - 1)>> \o Split(SubSeq(s, j + Len(sep), Len(s)), sep)

Split(s, sep) == SplitAt(s, sep, IndexFrom(s, sep, 1))

\* The text after the first line of s ("" when s has one line).
AfterLine(s, j) == IF j = 0 THEN "" ELSE SubSeq(s, j + Len("\n"), Len(s))

\* Leading white space and "--" comment lines removed.
RECURSIVE Strip(_)
Strip(s) ==
    IF s = "" THEN ""
    ELSE IF HasPrefixAt(s, "\n", 1) THEN Strip(SubSeq(s, Len("\n") + 1, Len(s)))
    ELSE IF HasPrefixAt(s, " ", 1) THEN Strip(SubSeq(s, 2, Len(s)))
    ELSE IF HasPrefixAt(s, "--", 1) THEN Strip(AfterLine(s, IndexFrom(s, "\n", 1)))
    ELSE s

RECURSIVE StripAll(_)
StripAll(seq) ==
    IF seq = <<>> THEN <<>> ELSE <<Strip(Head(seq))>> \o StripAll(Tail(seq))

\* The statements of a script, in order.
Statements(text) == SelectSeq(StripAll(Split(text, ";")), LAMBDA st : st # "")

WordAt(w, i) == IF i >= 1 /\ i <= Len(w) THEN w[i] ELSE ""

\* The word that follows the first occurrence of key among the words ("": none).
WordAfter(w, key) == WordAt(w, Least({ i \in 1..Len(w) : w[i] = key }) + 1)

\* A name without what follows it in the same word: f() -> f, (id -> "".
CutAt(word, j) == IF j = 0 THEN word ELSE SubSeq(word, 1, j - 1)

BareName(word) == CutAt(word, IndexFrom(word, "(", 1))

SchemaOfParts(parts) == IF Len(parts) = 2 THEN parts[1] ELSE "public"

NameOfParts(parts) == parts[Len(parts)]

SchemaOf(qname) == SchemaOfParts(Split(qname, "."))

NameOf(qname) == NameOfParts(Split(qname, "."))

KindWords == {"SCHEMA", "FUNCTION", "TABLE", "INDEX", "SEQUENCE", "VIEW", "TYPE"}

ReservedWords == {"", "CREATE", "IF", "NOT", "EXISTS", "OR", "REPLACE", "ON", "AS"}

\* The object kind a CREATE statement names; after is the word that follows
\* "<name> AS".
KindOf(kindWord, after) ==
    IF kindWord = "TYPE" THEN (IF after = "ENUM" THEN "enum" ELSE "composite")
    ELSE IF kindWord = "SCHEMA" THEN "schema"
    ELSE IF kindWord = "FUNCTION" THEN "function"
    ELSE IF kindWord = "TABLE" THEN "table"
    ELSE IF kindWord = "INDEX" THEN "index"
    ELSE IF kindWord = "SEQUENCE" THEN "sequence"
    ELSE IF kindWord = "VIEW" THEN "view"
    ELSE "none"

\* The relation an index is built on (after ON), a view selects from (after FROM).
OnName(w, kindWord) ==
    IF kindWord = "INDEX" THEN BareName(WordAfter(w, "ON"))
    ELSE IF kindWord = "VIEW" THEN BareName(WordAfter(w, "FROM"))
    ELSE ""

Parsed(isCreate, orReplace, unique, kindWord, ifNot, kind, qname, onName) ==
    [ isCreate    |-> isCreate,
      valid       |-> /\ kindWord \in KindWords
                      /\ orReplace => kindWord \in {"FUNCTION", "VIEW"}
                      /\ unique => kindWord = "INDEX"
                      /\ ifNot => kindWord \in {"SCHEMA", "TABLE", "INDEX", "SEQUENCE"}
                      /\ qname \notin ReservedWords
                      /\ kindWord = "INDEX" => onName # "",
      kind        |-> kind,
      orReplace   |-> orReplace,
      ifNotExists |-> ifNot,
      schema      |-> IF kind = "schema" THEN ""
                      ELSE IF kind = "index" THEN SchemaOf(onName)
                      ELSE SchemaOf(qname),
      name        |-> NameOf(qname),
      on          |-> IF onName = "" THEN "" ELSE NameOf(onName) ]

\* i3: the position of the object's name among the words.
ParseName(w, orReplace, unique, kindWord, ifNot, i3) ==
    Parsed(WordAt(w, 1) = "CREATE", orReplace, unique, kindWord, ifNot,
           KindOf(kindWord, WordAt(w, i3 + 2)), BareName(WordAt(w, i3)),
           OnName(w, kindWord))

\* i2: the position of the kind word.
ParseKind(w, orReplace, unique, i2, ifNot) ==
    ParseName(w, orReplace, unique, WordAt(w, i2), ifNot,
              IF ifNot THEN i2 + 4 ELSE i2 + 1)

IfNotExistsAt(w, i) ==
    WordAt(w, i) = "IF" /\ WordAt(w, i + 1) = "NOT" /\ WordAt(w, i + 2) = "EXISTS"

\* i1: the position after CREATE [OR REPLACE].
ParseUnique(w, orReplace, i1, unique) ==
    ParseKind(w, orReplace, unique, IF unique THEN i1 + 1 ELSE i1,
              IfNotExistsAt(w, (IF unique THEN i1 + 1 ELSE i1) + 1))

ParseOrReplace(w, orReplace) ==
    ParseUnique(w, orReplace, IF orReplace THEN 4 ELSE 2,
                WordAt(w, IF orReplace THEN 4 ELSE 2) = "UNIQUE")

ParseWords(w) ==
    ParseOrReplace(w, WordAt(w, 2) = "OR" /\ WordAt(w, 3) = "REPLACE")

ParseStmt(stmt) == ParseWords(Split(stmt, " "))

(***************************************************************************)
(* A database is the set of its user-created objects; the system schemas   *)
(* and the default schema are always there.                                *)
(***************************************************************************)
Obj(kind, schema, name, on) ==
    [kind |-> kind, schema |-> schema, name |-> name, on |-> on]

SchemaApp      == Obj("schema", "", "app", "")
SchemaPgdata   == Obj("schema", "", "pgdata", "")
EnumMood       == Obj("enum", "public", "mood", "")
CompositeAddr  == Obj("composite", "public", "addr", "")
FuncF          == Obj("function", "public", "f", "")
SeqSeq         == Obj("sequence", "public", "seq", "")
TableCustomers == Obj("table", "public", "customers", "")
TableOrders    == Obj("table", "app", "orders", "")
ViewSummary    == Obj("view", "public", "order_summary", "customers")
IndexIdx       == Obj("index", "public", "idx", "customers")

\* The order in which a dump lists the objects.
DumpOrder ==
    << SchemaApp, SchemaPgdata, EnumMood, CompositeAddr, FuncF, SeqSeq,
       TableCustomers, TableOrders, ViewSummary, IndexIdx >>

BuiltinSchemas == {"public", "information_schema", "pg_catalog", "pg_toast"}

SchemaNames(db) == BuiltinSchemas \cup { o.name : o \in { x \in db : x.kind = "schema" } }

\* The statement a schema-only dump holds for an object.
DDL(o) ==
    CASE o.kind = "schema"    -> "CREATE SCHEMA " \o o.name \o ";\n"
      [] o.kind = "enum"      -> "CREATE TYPE " \o o.schema \o "." \o o.name
                                    \o " AS ENUM ('sad');\n"
      [] o.kind = "composite" -> "CREATE TYPE " \o o.schema \o "." \o o.name
                                    \o " AS (street text);\n"
      [] o.kind = "function"  -> "CREATE FUNCTION " \o o.schema \o "." \o o.name
                                    \o "() RETURNS integer LANGUAGE sql AS 'SELECT 1';\n"
      [] o.kind = "sequence"  -> "CREATE SEQUENCE " \o o.schema \o "." \o o.name \o ";\n"
      [] o.kind = "table"     -> "CREATE TABLE " \o o.schema \o "." \o o.name
                                    \o " (id integer);\n"
      [] o.kind = "view"      -> "CREATE VIEW " \o o.schema \o "." \o o.name
                                    \o " AS SELECT id FROM " \o o.schema \o "." \o o.on \o ";\n"
      [] o.kind = "index"     -> "CREATE INDEX " \o o.name \o " ON "
                                    \o o.schema \o "." \o o.on \o " USING btree (id);\n"

RECURSIVE DumpFrom(_, _)
DumpFrom(db, i) ==
    IF i > Len(DumpOrder) THEN ""
    ELSE (IF DumpOrder[i] \in db THEN DDL(DumpOrder[i]) ELSE "") \o DumpFrom(db, i + 1)

\* pg_dump --schema-only --no-owner --no-privileges: the script of the database.
DumpText(db) == "SET client_encoding = 'UTF8';\n" \o DumpFrom(db, 1)

\* Objects that live in one name space of a schema.
NameSpace(kind) ==
    IF kind \in {"table", "index", "sequence", "view", "composite"} THEN "relation"
    ELSE IF kind = "enum" THEN "type"
    ELSE kind

Clash(db, obj) ==
    { o \in db : /\ o.schema = obj.schema
                 /\ o.name = obj.name
                 /\ NameSpace(o.kind) = NameSpace(obj.kind) }

\* The server executes one parsed statement: the database after it and the
\* error it raised ("": none).  hit: the objects that hold the name already.
ExecHit(db, p, obj, hit) ==
    IF ~p.isCreate THEN [db |-> db, error |-> ""]
    ELSE IF ~p.valid
         THEN [db |-> db, error |-> "ERROR:  syntax error\n"]
    ELSE IF obj.kind # "schema" /\ obj.schema \notin SchemaNames(db)
         THEN [db |-> db, error |-> "ERROR:  schema does not exist\n"]
    ELSE IF obj.on # "" /\ ~\E t \in db : /\ t.kind \in {"table", "view"}
                                          /\ t.schema = obj.schema
                                          /\ t.name = obj.on
         THEN [db |-> db, error |-> "ERROR:  relation does not exist\n"]
    ELSE IF hit = {} THEN [db |-> db \cup {obj}, error |-> ""]
    ELSE IF p.ifNotExists THEN [db |-> db, error |-> ""]
    ELSE IF p.orReplace /\ \A o \in hit : o.kind = obj.kind
         THEN [db |-> (db \ hit) \cup {obj}, error |-> ""]
    ELSE [db |-> db, error |-> "ERROR:  already exists\n"]

ExecObj(db, p, obj) == ExecHit(db, p, obj, Clash(db, obj))

ExecParsed(db, p) == ExecObj(db, p, Obj(p.kind, p.schema, p.name, p.on))

ExecStmt(db, stmt) == ExecParsed(db, ParseStmt(stmt))

\* psql runs the statements in order, each in its own transaction; with
\* ON_ERROR_STOP it stops at the first that fails, otherwise it goes on.
RECURSIVE ExecFrom(_, _, _, _, _)
ExecNext(r, stmts, i, onErrorStop, stderr) ==
    IF r.error # "" /\ onErrorStop
    THEN [db |-> r.db, stderr |-> stderr \o r.error, stopped |-> TRUE]
    ELSE ExecFrom(r.db, stmts, i + 1, onErrorStop, stderr \o r.error)

ExecFrom(db, stmts, i, onErrorStop, stderr) ==
    IF i > Len(stmts) THEN [db |-> db, stderr |-> stderr, stopped |-> FALSE]
    ELSE ExecNext(ExecStmt(db, stmts[i]), stmts, i, onErrorStop, stderr)

HasOnErrorStop(args) ==
    \E i \in 1..(Len(args) - 1) : args[i] = "-v" /\ args[i + 1] = "ON_ERROR_STOP=1"

\* psql's exit status: 1 for a command line it does not accept (it has no
\* --sslmode option), 2 when it cannot reach the server, 3 when a statement
\* of the script failed and ON_ERROR_STOP is set, 0 otherwise.
PsqlExit(r) == [db |-> r.db, exit |-> IF r.stopped THEN 3 ELSE 0, stderr |-> r.stderr]

PsqlScript(db, args, text, connOk) ==
    IF \E i \in 1..Len(args) : HasPrefixAt(args[i], "--sslmode", 1)
    THEN [db |-> db, exit |-> 1, stderr |-> "psql: unrecognized option '--sslmode'\n"]
    ELSE IF ~connOk
    THEN [db |-> db, exit |-> 2, stderr |-> "psql: error: connection to server failed\n"]
    ELSE PsqlExit(ExecFrom(db, Statements(text), 1, HasOnErrorStop(args), ""))

(***************************************************************************)
(* The server-side block of dropExistingObjects.                           *)
(***************************************************************************)
\* s LIKE p: '_' stands for any one character, '%' for any string.
RECURSIVE Like(_, _)
Like(s, p) ==
    IF p = "" THEN s = ""
    ELSE IF SubSeq(p, 1, 1) = "%"
         THEN \E k \in 0..Len(s) : Like(SubSeq(s, k + 1, Len(s)), SubSeq(p, 2, Len(p)))
         ELSE /\ s # ""
              /\ SubSeq(p, 1, 1) = "_" \/ SubSeq(p, 1, 1) = SubSeq(s, 1, 1)
              /\ Like(SubSeq(s, 2, Len(s)), SubSeq(p, 2, Len(p)))

\* What DROP ... CASCADE removes with the objects of S: what lives in a
\* dropped schema and what is built on a dropped table or view.
Dependents(db, S) ==
    { o \in db : \E d \in S :
        \/ d.kind = "schema" /\ o.schema = d.name
        \/ d.kind \in {"table", "view"} /\ o.schema = d.schema /\ o.on = d.name }

RECURSIVE Cascade(_, _)
CascadeMore(db, S, more) == IF more = S THEN S ELSE Cascade(db, more)

Cascade(db, S) == CascadeMore(db, S, S \cup Dependents(db, S))

InPublic(db, kind) == { o \in db : o.kind = kind /\ o.schema = "public" }

SchemasToDrop(db) ==
    { o \in db : /\ o.kind = "schema"
                 /\ ~Like(o.name, "pg_%")
                 /\ o.name # "public"
                 /\ o.name # "information_schema" }

\* One loop of the block: the objects it enumerates when it starts are
\* dropped with IF EXISTS ... CASCADE.
DropSchemas(db) == db \ Cascade(db, SchemasToDrop(db))

DropKind(db, kind) == db \ Cascade(db, InPublic(db, kind))

\* The six loops, in order: schemas, then functions, tables, composite
\* types, sequences and views of the default schema.
DropBlock(db) ==
    DropKind(DropKind(DropKind(DropKind(DropKind(DropSchemas(db),
        "function"), "table"), "composite"), "sequence"), "view")

\* What the block enumerates in a database.
Enumerated(db) ==
    SchemasToDrop(db) \cup InPublic(db, "function") \cup InPublic(db, "table")
        \cup InPublic(db, "composite") \cup InPublic(db, "sequence")
        \cup InPublic(db, "view")

ResetDone(db, after) ==
    [db |-> after, exit |-> 0,
     stderr |-> IF Enumerated(db) # db \ after
                THEN "NOTICE:  drop cascades to other objects\n" ELSE ""]

\* psql -f <drop script>: the block is one statement and is atomic; when a
\* statement inside it fails (aborts) nothing is dropped.
PsqlReset(db, args, connOk, aborts) ==
    IF ~connOk
    THEN [db |-> db, exit |-> 2, stderr |-> "psql: error: connection to server failed\n"]
    ELSE IF aborts
    THEN [db |-> db, exit |-> IF HasOnErrorStop(args) THEN 3 ELSE 0,
          stderr |-> "ERROR:  canceling statement due to lock timeout\n"]
    ELSE ResetDone(db, DropBlock(db))

(***************************************************************************)
(* Connection descriptors and the external invocations.                    *)
(***************************************************************************)
SourceCfg ==
    [Host |-> "source-host", Port |-> 5432, User |-> "postgres",
     Password |-> "source-secret", Database |-> "sourcedb", SSLMode |-> "require"]

TargetCfg ==
    [Host |-> "target-host", Port |-> 5432, User |-> "postgres",
     Password |-> "target-secret", Database |-> "targetdb", SSLMode |-> "require"]

\* os.Environ() of the tool's own process when it starts.
Environ == <<"PATH=/usr/bin">>

\* cmd.Env of the file-based invocations: PGPASSWORD, and PGSSLMODE when set.
CmdEnv(cfg) ==
    environ \o <<"PGPASSWORD=" \o cfg.Password>>
            \o (IF cfg.SSLMode # "" THEN <<"PGSSLMODE=" \o cfg.SSLMode>> ELSE <<>>)

ConnArgsWithUrl(cfg) ==
    <<"--dbname=postgresql://" \o cfg.User \o ":" \o cfg.Password \o "@" \o cfg.Host
        \o ":" \o ToString(cfg.Port) \o "/" \o cfg.Database>>

ConnArgs(cfg) ==
    <<"-h", cfg.Host, "-p", ToString(cfg.Port), "-U", cfg.User, "-d", cfg.Database>>

\* What cmd.Run() returns for an exit status.
RunErr(exit) == IF exit = 0 THEN "nil" ELSE "exit status " \o ToString(exit)

\* One step of a call, as the log keeps it: the external command run (if
\* any), its exit status and captured stderr, and what the step returned.
Step(step, tool, args, env, exit, stderr, err, aborted) ==
    [step |-> step, tool |-> tool, args |-> args, env |-> env, exit |-> exit,
     stderr |-> stderr, err |-> err, aborted |-> aborted]

\* dumpSchema: pg_dump of the source into the dump file.
DumpArgs(path) ==
    ConnArgs(SourceCfg) \o <<"--schema-only", "--no-owner", "--no-privileges", "-f", path>>

PgDump(db, connOk) ==
    IF connOk THEN [exit |-> 0, stderr |-> "", out |-> DumpText(db)]
    ELSE [exit |-> 1, out |-> "",
          stderr |-> "pg_dump: error: could not translate host name to address\n"]

\* What dumpSchema returns for the outcome of pg_dump.
DumpErrIgnoresExit(r) == "nil"

DumpErr(r) ==
    IF r.exit # 0
    THEN "pg_dump failed: " \o RunErr(r.exit) \o ", stderr: " \o r.stderr
    ELSE "nil"

DumpReturn(r, path, err) ==
    [ err  |-> err,
      file |-> [exists |-> r.exit = 0, content |-> r.out],
      ev   |-> Step("dump", "pg_dump", DumpArgs(path), CmdEnv(SourceCfg),
                    r.exit, r.stderr, err, FALSE) ]

DumpResult(r, path) == DumpReturn(r, path, DumpErr(r))

dumpSchema(db, path, connOk) == DumpResult(PgDump(db, connOk), path)

\* DumpSchemaToWriter: pg_dump of the source onto the writer, with the SSL
\* mode as a --sslmode option and PGPASSWORD alone added to the environment.
WriterDumpArgs ==
    ConnArgs(SourceCfg) \o <<"--schema-only", "--no-owner", "--no-privileges">>
        \o (IF SourceCfg.SSLMode # "" THEN <<"--sslmode=" \o SourceCfg.SSLMode>> ELSE <<>>)

\* pg_dump run with args: it ends with status 1 on an option it does not
\* know, as --sslmode is.
PgDumpWith(db, args, connOk) ==
    IF \E i \in 1..Len(args) : HasPrefixAt(args[i], "--sslmode", 1)
    THEN [exit |-> 1, out |-> "", stderr |-> "pg_dump: unrecognized option '--sslmode'\n"]
    ELSE PgDump(db, connOk)

\* What DumpSchemaToWriter returns for the outcome r of pg_dump: the error,
\* what reached the writer, and the step.
WriterDumped(r) ==
    [ err     |-> DumpErr(r),
      written |-> r.out,
      ev      |-> Step("dump", "pg_dump", WriterDumpArgs,
                       environ \o <<"PGPASSWORD=" \o SourceCfg.Password>>,
                       r.exit, r.stderr, DumpErr(r), FALSE) ]

DumpSchemaToWriter(db, connOk) == WriterDumped(PgDumpWith(db, WriterDumpArgs, connOk))

\* dropExistingObjects: the drop script is written to a temporary file and
\* run with psql -f; the temporary file is removed when the function returns.
ResetArgs(path) == ConnArgs(TargetCfg) \o <<"-f", path>>

\* What dropExistingObjects returns for the outcome of psql.
ResetErrStderrFails(r) ==
    IF r.exit # 0 \/ r.stderr # ""
    THEN "dropping objects failed: " \o RunErr(r.exit) \o ", stderr: " \o r.stderr
    ELSE "nil"

ResetErr(r) ==
    IF r.exit # 0
    THEN "dropping objects failed: " \o RunErr(r.exit) \o ", stderr: " \o r.stderr
    ELSE "nil"

\* The drop script is created by os.CreateTemp and, once created, removed by
\* the deferred os.Remove when dropExistingObjects returns.
ResetCreated(fault) == IF fault = "create" THEN {} ELSE {"dropScript"}

ResetDeferred(fault) == IF fault = "create" THEN {} ELSE {"dropScript"}

ResetLeft(fault) == ResetCreated(fault) \ ResetDeferred(fault)

ResetReturn(r, err, aborted) ==
    [ db  |-> r.db,
      err |-> err,
      left |-> ResetLeft("none"),
      ev  |-> Step("reset", "psql", ResetArgs("drop-objects.sql"), CmdEnv(TargetCfg),
                   r.exit, r.stderr, err, aborted) ]

ResetResult(r, aborted) == ResetReturn(r, ResetErr(r), aborted)

ResetNotRun(db, err, fault) ==
    [db |-> db, err |-> err, left |-> ResetLeft(fault),
     ev |-> Step("reset", "", <<>>, <<>>, 0, "", err, FALSE)]

\* fault: the step of the function that the environment makes fail.
dropExistingObjects(db, fault, aborts) ==
    IF fault = "create"
    THEN ResetNotRun(db, "failed to create temp file for drop script", fault)
    ELSE IF fault = "write"
    THEN ResetNotRun(db, "failed to write drop script to temp file", fault)
    ELSE ResetResult(PsqlReset(db, ResetArgs("drop-objects.sql"), fault # "connect", aborts),
                     fault # "connect" /\ aborts)

\* restoreSchema, first half: the dump file is opened, the ".modified" file
\* is created, processSchemaFile fills it, and it is opened again for reading.
Rewritten(r, fault) ==
    IF r.err # "nil"
    THEN [err |-> "failed to process schema file: " \o r.err, script |-> "", made |-> TRUE]
    ELSE IF fault = "reopen"
    THEN [err |-> "failed to open modified dump file", script |-> "", made |-> TRUE]
    ELSE [err |-> "nil", script |-> r.out, made |-> TRUE]

RewriteFile(file, fault) ==
    IF ~file.exists \/ fault = "open"
    THEN [err |-> "failed to open dump file", script |-> "", made |-> FALSE]
    ELSE IF fault = "create"
    THEN [err |-> "failed to create modified dump file", script |-> "", made |-> FALSE]
    ELSE Rewritten(processSchemaFile(file.content, fault # "read", fault # "write"), fault)

\* RestoreSchemaFromReader, first half: the reader is copied to a buffer and
\* the same six replacements are made on its content.
ReaderContent(content) ==
    LET c1 == Replace(content, "CREATE SCHEMA ", "CREATE SCHEMA IF NOT EXISTS ")
        c2 == Replace(c1, "CREATE FUNCTION ", "CREATE OR REPLACE FUNCTION ")
        c3 == Replace(c2, "CREATE TABLE ", "CREATE TABLE IF NOT EXISTS ")
        c4 == Replace(c3, "CREATE INDEX ", "CREATE INDEX IF NOT EXISTS ")
        c5 == Replace(c4, "CREATE SEQUENCE ", "CREATE SEQUENCE IF NOT EXISTS ")
        c6 == Replace(c5, "CREATE VIEW ", "CREATE OR REPLACE VIEW ")
    IN  c6

RewriteReader(file, fault) ==
    IF fault = "read"
    THEN [err |-> "failed to read input", script |-> "", made |-> FALSE]
    ELSE [err |-> "nil", script |-> ReaderContent(file.content), made |-> FALSE]

\* The psql invocation of restoreSchema (script on stdin, PGSSLMODE in the
\* environment) and of RestoreSchemaFromReader (--sslmode on the command line).
RestoreArgsNoStop == ConnArgs(TargetCfg)

RestoreArgs == ConnArgs(TargetCfg) \o <<"-v", "ON_ERROR_STOP=1">>

ReaderRestoreArgs ==
    RestoreArgs \o (IF TargetCfg.SSLMode # ""
                    THEN <<"--sslmode=" \o TargetCfg.SSLMode>> ELSE <<>>)

ReaderEnv(cfg) == environ \o <<"PGPASSWORD=" \o cfg.Password>>

RestoreErr(r) ==
    IF r.exit # 0
    THEN "psql restore failed: " \o RunErr(r.exit) \o ", stderr: " \o r.stderr
    ELSE "nil"

RestoreReturn(r, args, env, err) ==
    [ db  |-> r.db,
      err |-> err,
      ev  |-> Step("restore", "psql", args, env, r.exit, r.stderr, err, FALSE) ]

RestoreResult(r, args, env) == RestoreReturn(r, args, env, RestoreErr(r))

restorePsql(db, args, env, text, connOk) ==
    RestoreResult(PsqlScript(db, args, text, connOk), args, env)

(***************************************************************************)
(* Replication setup (Replicator.SetupReplication).                        *)
(***************************************************************************)
PubName == "aiven_db_migrate_pub"

SubName == "aiven_db_migrate_sub"

SlotName == "aiven_db_migrate_slot"

\* Nothing is set up and the extension is installed nowhere.
FreshRepl ==
    [pubs |-> {}, slots |-> {}, subs |-> {}, srcExt |-> FALSE, tgtExt |-> FALSE,
     wal |-> "logical"]

\* The statements SetupReplication issues, in order.
ReplStepsKeepSub ==
    <<"srcCheck", "srcInstall", "dropPub", "createPub",
      "tgtCheck", "tgtInstall", "wal", "createSub">>

ReplSteps ==
    <<"srcCheck", "srcInstall", "dropPub", "createPub",
      "tgtCheck", "tgtInstall", "wal", "dropSub", "createSub">>

\* What SetupReplication returns when a statement fails.
ReplErr(step) ==
    CASE step = "srcCheck"   -> "failed to check aiven_extras extension on source"
      [] step = "srcInstall" -> "failed to install aiven_extras extension on source"
      [] step = "dropPub"    -> "failed to drop existing publication"
      [] step = "createPub"  -> "failed to create publication on source"
      [] step = "tgtCheck"   -> "failed to check aiven_extras extension on target"
      [] step = "tgtInstall" -> "failed to install aiven_extras extension on target"
      [] step = "wal"        -> "failed to check wal_level on target"
      [] step = "dropSub"    -> "failed to drop existing subscription"
      [] step = "createSub"  -> "failed to create subscription on target"

\* The extension is installed only where checkExtensionInstalled found none.
ReplSkips(st, step) ==
    \/ step = "srcInstall" /\ st.srcExt
    \/ step = "tgtInstall" /\ st.tgtExt

\* The server refuses to create what exists: a publication of the name, a
\* subscription of the name, or the replication slot the subscription makes.
ReplRefusedChecksWal(st, step) ==
    \/ step = "createPub" /\ PubName \in st.pubs
    \/ step = "createSub" /\ (SubName \in st.subs \/ SlotName \in st.slots)
    \/ step = "wal" /\ st.wal # "logical"

ReplRefused(st, step) ==
    \/ step = "createPub" /\ PubName \in st.pubs
    \/ step = "createSub" /\ (SubName \in st.subs \/ SlotName \in st.slots)

\* What a statement that succeeds does.  DROP SUBSCRIPTION also drops the
\* slot of the subscription on the source.
ReplApply(st, step) ==
    CASE step = "srcInstall" -> [st EXCEPT !.srcExt = TRUE]
      [] step = "dropPub"    -> [st EXCEPT !.pubs = st.pubs \ {PubName}]
      [] step = "createPub"  -> [st EXCEPT !.pubs = st.pubs \cup {PubName}]
      [] step = "tgtInstall" -> [st EXCEPT !.tgtExt = TRUE]
      [] step = "dropSub"    -> [st EXCEPT !.subs = st.subs \ {SubName},
                                           !.slots = IF SubName \in st.subs
                                                     THEN st.slots \ {SlotName}
                                                     ELSE st.slots]
      [] step = "createSub"  -> [st EXCEPT !.subs = st.subs \cup {SubName},
                                           !.slots = st.slots \cup {SlotName}]
      [] OTHER               -> st

\* SetupReplication from its i-th statement on; fault: the statement the
\* environment makes fail ("none": none).
RECURSIVE ReplRun(_, _, _, _)
ReplAt(st, i, step, fault, lg) ==
    IF ReplSkips(st, step) THEN ReplRun(st, i + 1, fault, lg)
    ELSE IF step = fault \/ ReplRefused(st, step)
    THEN [st |-> st, err |-> ReplErr(step), log |-> Append(lg, step),
          refused |-> ReplRefused(st, step)]
    ELSE ReplRun(ReplApply(st, step), i + 1, fault, Append(lg, step))

ReplRun(st, i, fault, lg) ==
    IF i > Len(ReplSteps) THEN [st |-> st, err |-> "nil", log |-> lg, refused |-> FALSE]
    ELSE ReplAt(st, i, ReplSteps[i], fault, lg)

SetupReplication(st, fault) == ReplRun(st, 1, fault, <<>>)

(***************************************************************************)
(* The command line of the tool.                                           *)
(***************************************************************************)
NoFlags ==
    [full |-> FALSE, dump |-> FALSE, restore |-> FALSE, repl |-> FALSE, file |-> ""]

NoLoad == [side |-> "none"]

\* The command lines the tool is run with: the operation flags, and
\* --schema-file given or not.
Flags ==
    [full : {FALSE}, dump : BOOLEAN, restore : BOOLEAN, repl : BOOLEAN,
     file : {"", "schema.sql"}]
      \cup [full : {TRUE}, dump : {FALSE}, restore : BOOLEAN, repl : {FALSE}, file : {""}]

\* What the source and the target hold when the tool is first run.
MainSources == { {SeqSeq, TableCustomers, IndexIdx} }

MainTargets == { {}, {SchemaApp, TableOrders, CompositeAddr, TableCustomers, ViewSummary} }

\* What the two servers may hold of an earlier replication setup.
ReplInits ==
    { FreshRepl,
      [FreshRepl EXCEPT !.wal = "replica"],
      [pubs |-> {PubName}, slots |-> {SlotName}, subs |-> {SubName},
       srcExt |-> TRUE, tgtExt |-> TRUE, wal |-> "logical"] }

\* The statement of SetupReplication the environment makes fail.
ReplFaults ==
    {"none", "srcCheck", "srcInstall", "dropPub", "createPub",
     "tgtCheck", "tgtInstall", "wal", "dropSub", "createSub"}

(***************************************************************************)
(* Texts handed to the rewriter: up to MaxStmts lines, each one of the     *)
(* statements a dump or a hand-written schema file holds.                  *)
(***************************************************************************)
\* Lines a schema-only dump holds.
DumpLines ==
    { "CREATE SCHEMA app;\n",
      "CREATE FUNCTION public.f() RETURNS integer LANGUAGE sql AS 'SELECT 1';\n",
      "CREATE TABLE public.customers (id SERIAL PRIMARY KEY);\n",
      "CREATE INDEX idx ON public.customers (id);\n",
      "CREATE SEQUENCE public.seq;\n",
      "CREATE VIEW order_summary AS SELECT 1;\n",
      "CREATE UNIQUE INDEX uq ON public.customers (id);\n",
      "CREATE TYPE public.mood AS ENUM ('sad');\n",
      "-- RECREATE TABLE notes\n",
      "SET search_path = '';\n" }

\* Lines of a schema file that is already in rewritten form.
RewrittenLines ==
    { "CREATE SCHEMA IF NOT EXISTS app;\n",
      "CREATE OR REPLACE FUNCTION public.f() RETURNS integer LANGUAGE sql AS 'SELECT 1';\n",
      "CREATE TABLE IF NOT EXISTS public.customers (id SERIAL PRIMARY KEY);\n",
      "CREATE INDEX IF NOT EXISTS idx ON public.customers (id);\n",
      "CREATE SEQUENCE IF NOT EXISTS public.seq;\n",
      "CREATE OR REPLACE VIEW order_summary AS SELECT 1;\n" }

Lines == DumpLines \cup RewrittenLines

RECURSIVE Concat(_)
Concat(seq) == IF seq = <<>> THEN "" ELSE Head(seq) \o Concat(Tail(seq))

TextsOf(lines) == { Concat(seq) : seq \in UNION { [1..n -> lines] : n \in 0..MaxStmts } }

Texts == TextsOf(Lines)

RawDumps == TextsOf(DumpLines)

(***************************************************************************)
(* The schema handler: DumpAndRestoreSchema, RestoreSchemaFromFile and     *)
(* RestoreSchemaFromReader, one action per step of a call.                 *)
(***************************************************************************)
Sources ==
    { {SchemaApp, TableOrders, FuncF, SeqSeq, TableCustomers, ViewSummary, IndexIdx},
      {EnumMood, TableCustomers},
      {SchemaPgdata, CompositeAddr} }

\* What the target may hold before the first call: nothing, or the leftovers
\* of an earlier run.
InitialTargets ==
    { {},
      {SchemaApp, TableOrders, CompositeAddr, TableCustomers, ViewSummary},
      {SchemaPgdata, EnumMood, TableCustomers} }

MissingFile == [exists |-> FALSE, content |-> ""]

\* The schema files (and reader contents) a caller may give.
SchemaFiles ==
    { MissingFile,
      [exists |-> TRUE, content |-> DumpText({SeqSeq, TableCustomers, IndexIdx})],
      [exists |-> TRUE,
       content |-> "CREATE TABLE public.customers (id integer);\n"
                     \o "CREATE TABEL public.broken (id integer);\n"
                     \o "CREATE SEQUENCE public.seq;\n"] }

\* No call was made yet.
ShStart ==
    /\ call = "none"
    /\ pc = "idle"
    /\ schemaFile = MissingFile
    /\ dumpFile = MissingFile
    /\ script = ""
    /\ log = <<>>
    /\ result = "nil"
    /\ tmp = {}
    /\ targetAtCall = target
    /\ envOk = TRUE
    /\ ncalls = 0
    /\ done = <<>>
    /\ resetRun = <<>>
    /\ beforeRestore = {}
    /\ environ = Environ

ShInit ==
    /\ source \in Sources
    /\ target \in InitialTargets
    /\ ShStart

\* The last element of a sequence, as a sequence.
LastOf(seq) == IF seq = <<>> THEN <<>> ELSE <<seq[Len(seq)]>>

\* What the deferred calls of a public function and of restoreSchema remove
\* when it returns: os.RemoveAll(tempDir) takes the directory with the dump
\* file and its ".modified" copy, os.Remove(modifiedDumpPath) the copy.
DeferredKeepsModified(name) ==
    IF name = "DumpAndRestoreSchema" THEN {"tempDir", "dumpFile", "modified"} ELSE {}

Deferred(name) ==
    IF name = "DumpAndRestoreSchema" THEN {"tempDir", "dumpFile", "modified"}
    ELSE {"modified"}

\* The call returns err with the temporary files `files` in existence: the
\* deferred clean-up runs.
Return(err, tgt, ok, files) ==
    /\ pc' = "idle"
    /\ result' = err
    /\ tmp' = files \ Deferred(call)
    /\ envOk' = ok
    /\ done' = IF call = "DumpAndRestoreSchema" /\ ok
               THEN Append(LastOf(done), [err |-> err, before |-> targetAtCall, after |-> tgt])
               ELSE <<>>

Begin(name, file) ==
    /\ pc = "idle"
    /\ ncalls < MaxCalls
    /\ ncalls' = ncalls + 1
    /\ call' = name
    /\ schemaFile' = file
    /\ dumpFile' = MissingFile
    /\ script' = ""
    /\ log' = <<>>
    /\ result' = "running"
    /\ targetAtCall' = target
    /\ envOk' = TRUE
    /\ beforeRestore' = {}
    /\ UNCHANGED <<source, target, done, resetRun, environ>>

\* Where DumpAndRestoreSchema goes after dumpSchema returned err.
AfterDumpSkipsReset(err) == IF err # "nil" THEN "return" ELSE "rewrite"

AfterDump(err) == IF err # "nil" THEN "return" ELSE "reset"

\* Where a call goes after dropExistingObjects returned err.
AfterResetIgnoresError(err) == "rewrite"

AfterReset(err) == IF err # "nil" THEN "return" ELSE "rewrite"

\* DumpAndRestoreSchema is entered: the temporary directory is made.
EnterDumpAndRestore ==
    /\ Begin("DumpAndRestoreSchema", MissingFile)
    /\ pc' = "dump"
    /\ tmp' = tmp \cup {"tempDir"}

\* DumpAndRestoreSchema is entered and returns: the temporary directory
\* cannot be made.
EnterMkdirTempFails ==
    /\ pc = "idle"
    /\ ncalls < MaxCalls
    /\ ncalls' = ncalls + 1
    /\ call' = "DumpAndRestoreSchema"
    /\ log' = <<>>
    /\ result' = "failed to create temp directory"
    /\ targetAtCall' = target
    /\ envOk' = FALSE
    /\ done' = <<>>
    /\ UNCHANGED <<source, target, pc, schemaFile, dumpFile, script, tmp, resetRun,
                   beforeRestore, environ>>

\* RestoreSchemaFromFile(filePath) is entered.
EnterRestoreOpensFirst(file) ==
    /\ Begin("RestoreSchemaFromFile", file)
    /\ pc' = "rewrite"
    /\ tmp' = tmp

EnterRestoreFromFile(file) ==
    /\ Begin("RestoreSchemaFromFile", file)
    /\ pc' = "reset"
    /\ tmp' = tmp

\* A caller of the package calls DumpAndRestoreSchema.
StartDumpAndRestore == EnterDumpAndRestore /\ UNCHANGED besideSh

MkdirTempFails == EnterMkdirTempFails /\ UNCHANGED besideSh

\* A caller of the package calls RestoreSchemaFromFile(filePath).
StartRestoreFromFile ==
    \E file \in SchemaFiles : EnterRestoreFromFile(file) /\ UNCHANGED besideSh

\* A caller of the package calls RestoreSchemaFromReader(reader).
StartRestoreFromReader ==
    \E file \in SchemaFiles \ {MissingFile} :
        /\ Begin("RestoreSchemaFromReader", file)
        /\ pc' = "reset"
        /\ tmp' = tmp
        /\ UNCHANGED besideSh

\* A caller of the package calls DumpSchemaToWriter(writer).
StartDumpToWriter ==
    /\ Begin("DumpSchemaToWriter", MissingFile)
    /\ pc' = "dumpWriter"
    /\ tmp' = tmp
    /\ UNCHANGED besideSh

\* pg_dump ran with the writer as its standard output and the call returns;
\* script holds what the writer received.
WriterStep ==
    /\ pc = "dumpWriter"
    /\ \E connOk \in BOOLEAN :
         /\ log' = Append(log, DumpSchemaToWriter(source, connOk).ev)
         /\ script' = DumpSchemaToWriter(source, connOk).written
         /\ Return(DumpSchemaToWriter(source, connOk).err, target, envOk /\ connOk, tmp)
    /\ UNCHANGED <<source, target, call, schemaFile, dumpFile, targetAtCall, ncalls, resetRun,
                   beforeRestore, environ>>
    /\ UNCHANGED besideSh

\* dumpSchema(dumpFilePath) returned r.
DumpReturned(r, next, ok) ==
    /\ log' = Append(log, r.ev)
    /\ IF next = "return"
       THEN /\ Return("failed to dump schema: " \o r.err, target, ok, tmp)
            /\ UNCHANGED dumpFile
       ELSE /\ pc' = next
            /\ dumpFile' = r.file
            /\ tmp' = tmp \cup {"dumpFile"}
            /\ envOk' = ok
            /\ UNCHANGED <<result, done>>

DumpRan(r, ok) == DumpReturned(r, AfterDump(r.err), ok)

DumpStep ==
    /\ pc = "dump"
    /\ \E connOk \in BOOLEAN :
         DumpRan(dumpSchema(source, "schema-dump.sql", connOk), envOk /\ connOk)
    /\ UNCHANGED <<source, target, call, schemaFile, script, targetAtCall, ncalls, resetRun,
                   beforeRestore, environ>>
    /\ UNCHANGED besideSh

\* dropExistingObjects() returned r.
ResetReturned(r, next, ok) ==
    /\ target' = r.db
    /\ log' = Append(log, r.ev)
    /\ resetRun' = Append(LastOf(resetRun),
                          [before |-> target, after |-> r.db, ev |-> r.ev, ok |-> ok])
    /\ IF next = "return"
       THEN Return("failed to drop existing objects: " \o r.err, r.db, ok, tmp \cup r.left)
       ELSE /\ pc' = next
            /\ envOk' = ok
            /\ tmp' = tmp \cup r.left
            /\ UNCHANGED <<result, done>>

ResetRan(r, ok) == ResetReturned(r, AfterReset(r.err), ok)

ResetStep ==
    /\ pc = "reset"
    /\ \E fault \in {"none", "create", "write", "connect"}, aborts \in BOOLEAN :
         /\ fault # "none" => ~aborts
         /\ ResetRan(dropExistingObjects(target, fault, aborts),
                     envOk /\ fault = "none" /\ ~aborts)
    /\ UNCHANGED <<source, call, schemaFile, dumpFile, script, targetAtCall, ncalls,
                   beforeRestore, environ>>
    /\ UNCHANGED besideSh

\* The script is rewritten: by restoreSchema through processSchemaFile, by
\* RestoreSchemaFromReader in memory.
RewriteReturned(r, ok) ==
    /\ log' = Append(log, Step("rewrite", "", <<>>, <<>>, 0, "", r.err, FALSE))
    /\ script' = r.script
    /\ IF r.err # "nil"
       THEN Return((IF call = "DumpAndRestoreSchema"
                    THEN "failed to restore schema: " ELSE "") \o r.err, target, ok,
                   IF r.made THEN tmp \cup {"modified"} ELSE tmp)
       ELSE /\ pc' = "restore"
            /\ envOk' = ok
            /\ tmp' = IF r.made THEN tmp \cup {"modified"} ELSE tmp
            /\ UNCHANGED <<result, done>>

RewriteStep ==
    /\ pc = "rewrite"
    /\ \E fault \in {"none", "open", "create", "read", "write", "reopen"} :
         /\ call = "RestoreSchemaFromReader" => fault \in {"none", "read"}
         /\ RewriteReturned(
              IF call = "RestoreSchemaFromReader" THEN RewriteReader(schemaFile, fault)
              ELSE IF call = "DumpAndRestoreSchema" THEN RewriteFile(dumpFile, fault)
              ELSE RewriteFile(schemaFile, fault),
              envOk /\ fault = "none")
    /\ UNCHANGED <<source, target, call, schemaFile, dumpFile, targetAtCall, ncalls, resetRun,
                   beforeRestore, environ>>
    /\ UNCHANGED besideSh

\* psql ran the rewritten script against the target and the call returns.
RestoreReturned(r, ok) ==
    /\ target' = r.db
    /\ log' = Append(log, r.ev)
    /\ Return((IF call = "DumpAndRestoreSchema" /\ r.err # "nil"
               THEN "failed to restore schema: " ELSE "") \o r.err, r.db, ok, tmp)

RestoreStep ==
    /\ pc = "restore"
    /\ \E connOk \in BOOLEAN :
         RestoreReturned(
           IF call = "RestoreSchemaFromReader"
           THEN restorePsql(target, ReaderRestoreArgs, ReaderEnv(TargetCfg), script, connOk)
           ELSE restorePsql(target, RestoreArgs, CmdEnv(TargetCfg), script, connOk),
           envOk /\ connOk)
    /\ resetRun' = <<>>
    /\ beforeRestore' = target
    /\ UNCHANGED <<source, call, schemaFile, dumpFile, script, targetAtCall, ncalls, environ>>
    /\ UNCHANGED besideSh

Next ==
    \/ StartDumpAndRestore
    \/ MkdirTempFails
    \/ StartRestoreFromFile
    \/ StartRestoreFromReader
    \/ StartDumpToWriter
    \/ DumpStep
    \/ WriterStep
    \/ ResetStep
    \/ RewriteStep
    \/ RestoreStep

(***************************************************************************)
(* The rewriter on its own: a text is rewritten, and its output is         *)
(* rewritten again.                                                        *)
(***************************************************************************)
RewriteInit ==
    /\ rwIn \in Texts
    /\ rwOut = ""
    /\ rwErr = "nil"
    /\ rwIo = [readOk |-> TRUE, writeOk |-> TRUE]
    /\ rwPass = 0

RewriteIdle ==
    /\ rwIn = ""
    /\ rwOut = ""
    /\ rwErr = "nil"
    /\ rwIo = [readOk |-> TRUE, writeOk |-> TRUE]
    /\ rwPass = 0

\* processSchemaFile(input, output) returned res.
RewriteCalled(input, res, readOk, writeOk) ==
    /\ rwIn' = input
    /\ rwOut' = res.out
    /\ rwErr' = res.err
    /\ rwIo' = [readOk |-> readOk, writeOk |-> writeOk]

\* processSchemaFile(input, output) is called; after the first call, on what
\* the call before wrote.
RewriteCall ==
    /\ rwPass < MaxPasses
    /\ rwErr = "nil"
    /\ \E readOk, writeOk \in BOOLEAN :
         IF rwPass = 0
         THEN RewriteCalled(rwIn, processSchemaFile(rwIn, readOk, writeOk), readOk, writeOk)
         ELSE RewriteCalled(rwOut, processSchemaFile(rwOut, readOk, writeOk), readOk, writeOk)
    /\ rwPass' = rwPass + 1

RewriteNext == RewriteCall /\ UNCHANGED <<shVars, mainVars, replVars, cfgVars>>

\* No schema handler is at work.
ShIdle ==
    /\ source = {} /\ target = {} /\ call = "none" /\ pc = "idle"
    /\ schemaFile = MissingFile /\ dumpFile = MissingFile /\ script = ""
    /\ log = <<>> /\ result = "nil" /\ tmp = {} /\ targetAtCall = {}
    /\ envOk = TRUE /\ ncalls = 0 /\ done = <<>> /\ resetRun = <<>>
    /\ beforeRestore = {} /\ environ = Environ

\* The tool is not running, nothing was set up, no descriptor was loaded.
MainIdle ==
    /\ mainPc = "none" /\ flags = NoFlags /\ out = <<>> /\ exitCode = 0 /\ runs = 0
    /\ disk = MissingFile

ReplIdle == repl = FreshRepl /\ rlog = <<>> /\ rdone = <<>>

CfgIdle == cfgIn = NoLoad /\ cfgOut = NoLoad

RewriteSpecInit == RewriteInit /\ ShIdle /\ MainIdle /\ ReplIdle /\ CfgIdle

SpecRewrite == RewriteSpecInit /\ [][RewriteNext]_vars

Init == ShInit /\ RewriteIdle /\ MainIdle /\ ReplIdle /\ CfgIdle

Spec == Init /\ [][Next]_vars

(***************************************************************************)
(* The command-line tool: main() runs the operations its flags ask for,    *)
(* and log.Fatalf ends the run with status 1.                              *)
(***************************************************************************)
MainInit ==
    /\ source \in MainSources
    /\ target \in MainTargets
    /\ ShStart /\ RewriteIdle /\ CfgIdle
    /\ mainPc = "none" /\ flags = NoFlags /\ out = <<>> /\ exitCode = 0 /\ runs = 0
    /\ disk \in SchemaFiles
    /\ repl \in ReplInits /\ rlog = <<>> /\ rdone = <<>>

Fatal(msgs) ==
    /\ mainPc' = "exited"
    /\ exitCode' = 1
    /\ out' = out \o msgs

Goes(msgs, nextPc) ==
    /\ mainPc' = nextPc
    /\ out' = out \o msgs
    /\ UNCHANGED exitCode

\* The tool is started with some command line.
MainRun ==
    /\ mainPc \in {"none", "exited"}
    /\ runs < MaxRuns
    /\ runs' = runs + 1
    /\ \E f \in Flags :
         /\ flags' = f
         /\ mainPc' = IF f.full THEN "full" ELSE "dump"
    /\ out' = <<>>
    /\ exitCode' = -1
    /\ call' = "none" /\ pc' = "idle" /\ schemaFile' = MissingFile
    /\ dumpFile' = MissingFile /\ script' = "" /\ log' = <<>> /\ result' = "nil"
    /\ targetAtCall' = target /\ envOk' = TRUE /\ done' = <<>> /\ resetRun' = <<>>
    /\ beforeRestore' = {} /\ rlog' = <<>> /\ ncalls' = 0
    /\ UNCHANGED <<source, target, tmp, environ, disk, repl, rdone, rwVars, cfgVars>>

\* --full-migration, step 1: DumpAndRestoreSchema is called.
MainFull ==
    /\ mainPc = "full"
    /\ EnterDumpAndRestore \/ EnterMkdirTempFails
    /\ Goes(<<"Starting full migration process...",
              "Step 1: Dumping and restoring schema...">>, "fullSchema")
    /\ UNCHANGED <<flags, runs, disk, rwVars, replVars, cfgVars>>

\* Where main goes after DumpAndRestoreSchema returned err.
AfterSchemaIgnoresError(err) == "fullRepl"

AfterSchema(err) == IF err # "nil" THEN "fatal" ELSE "fullRepl"

\* Whether --restore-schema lacks the path it needs.
LacksFileNever(f) == FALSE

LacksFile(f) == f.file = ""

\* DumpAndRestoreSchema has returned.
MainFullSchemaDone ==
    /\ mainPc = "fullSchema"
    /\ pc = "idle"
    /\ IF AfterSchema(result) = "fatal"
       THEN Fatal(<<"Failed to dump and restore schema: " \o result>>)
       ELSE Goes(<<"Step 2: Setting up logical replication...">>, "fullRepl")
    /\ UNCHANGED <<flags, runs, disk, shVars, rwVars, replVars, cfgVars>>

\* SetupReplication returned r.
ReplReturned(r, okMsg, nextPc, code) ==
    /\ repl' = r.st
    /\ rlog' = r.log
    /\ rdone' = Append(LastOf(rdone), IF r.err = "nil" THEN "ok"
                                      ELSE IF r.refused THEN "refused" ELSE "fault")
    /\ IF r.err # "nil"
       THEN Fatal(<<"Failed to setup replication: " \o r.err>>)
       ELSE /\ mainPc' = nextPc
            /\ out' = Append(out, okMsg)
            /\ exitCode' = code

\* --full-migration, step 2: SetupReplication is called, and the run ends.
MainFullRepl ==
    /\ mainPc = "fullRepl"
    /\ \E fault \in ReplFaults :
         ReplReturned(SetupReplication(repl, fault),
                      "Full migration process completed successfully.", "exited", 0)
    /\ UNCHANGED <<flags, runs, disk, shVars, rwVars, cfgVars>>

\* DumpSchemaToFile returned r.
MainDumped(r) ==
    /\ call' = "DumpSchemaToFile"
    /\ log' = <<r.ev>>
    /\ result' = r.err
    /\ disk' = IF flags.file # "" /\ r.file.exists THEN r.file ELSE disk
    /\ IF r.err # "nil"
       THEN Fatal(<<"Dumping schema from source database...",
                    "Failed to dump schema: " \o r.err>>)
       ELSE Goes(<<"Dumping schema from source database...",
                   "Schema dumped successfully to file">>, "restore")

\* --dump-schema: the schema is dumped to the file --schema-file names, or
\* to a temporary file that main creates.
MainDump ==
    /\ mainPc = "dump"
    /\ IF ~flags.dump
       THEN /\ Goes(<<>>, "restore")
            /\ UNCHANGED <<call, log, result, disk>>
       ELSE \E connOk, tempOk \in BOOLEAN :
              IF flags.file = "" /\ ~tempOk
              THEN /\ Fatal(<<"Dumping schema from source database...",
                              "Failed to create temporary file">>)
                   /\ UNCHANGED <<call, log, result, disk>>
              ELSE MainDumped(dumpSchema(source, IF flags.file # "" THEN flags.file
                                                 ELSE "schema-dump.sql", connOk))
    /\ UNCHANGED <<source, target, pc, schemaFile, dumpFile, script, tmp, targetAtCall,
                   envOk, ncalls, done, resetRun, beforeRestore, environ>>
    /\ UNCHANGED <<flags, runs, rwVars, replVars, cfgVars>>

\* --restore-schema: RestoreSchemaFromFile is called with the file
\* --schema-file names; without --schema-file the run ends.
MainRestore ==
    /\ mainPc = "restore"
    /\ IF ~flags.restore
       THEN Goes(<<>>, "repl") /\ UNCHANGED shVars
       ELSE IF LacksFile(flags)
       THEN /\ Fatal(<<"Restoring schema to target database...",
                       "Schema file path is required for restore operation. Use --schema-file flag.">>)
            /\ UNCHANGED shVars
       ELSE /\ EnterRestoreFromFile(disk)
            /\ Goes(<<"Restoring schema to target database...">>, "restoreWait")
    /\ UNCHANGED <<flags, runs, disk, rwVars, replVars, cfgVars>>

\* RestoreSchemaFromFile has returned.
MainRestoreDone ==
    /\ mainPc = "restoreWait"
    /\ pc = "idle"
    /\ IF result # "nil"
       THEN Fatal(<<"Failed to restore schema: " \o result>>)
       ELSE Goes(<<"Schema restored successfully to target database.">>, "repl")
    /\ UNCHANGED <<flags, runs, disk, shVars, rwVars, replVars, cfgVars>>

\* --setup-replication: SetupReplication is called.
MainRepl ==
    /\ mainPc = "repl"
    /\ IF ~flags.repl
       THEN Goes(<<>>, "end") /\ UNCHANGED replVars
       ELSE \E fault \in ReplFaults :
              ReplReturned(SetupReplication(repl, fault),
                           "Logical replication setup completed successfully.", "end", -1)
    /\ UNCHANGED <<flags, runs, disk, shVars, rwVars, cfgVars>>

\* The end of main.
MainEnd ==
    /\ mainPc = "end"
    /\ mainPc' = "exited"
    /\ exitCode' = 0
    /\ out' = Append(out, IF ~flags.dump /\ ~flags.restore /\ ~flags.repl /\ ~flags.full
                          THEN "No operation specified. Use --dump-schema, --restore-schema, --setup-replication, or --full-migration."
                          ELSE "Migration process completed.")
    /\ UNCHANGED <<flags, runs, disk, shVars, rwVars, replVars, cfgVars>>

MainNext ==
    \/ MainRun
    \/ MainFull
    \/ MainFullSchemaDone
    \/ MainFullRepl
    \/ MainDump
    \/ MainRestore
    \/ MainRestoreDone
    \/ MainRepl
    \/ MainEnd
    \/ DumpStep
    \/ ResetStep
    \/ RewriteStep
    \/ RestoreStep

SpecMain == MainInit /\ [][MainNext]_vars

(***************************************************************************)
(* Claims about the rewriter                                               *)
(***************************************************************************)
RuleTable ==
    { <<"CREATE SCHEMA ",   "CREATE SCHEMA IF NOT EXISTS ">>,
      <<"CREATE FUNCTION ", "CREATE OR REPLACE FUNCTION ">>,
      <<"CREATE TABLE ",    "CREATE TABLE IF NOT EXISTS ">>,
      <<"CREATE INDEX ",    "CREATE INDEX IF NOT EXISTS ">>,
      <<"CREATE SEQUENCE ", "CREATE SEQUENCE IF NOT EXISTS ">>,
      <<"CREATE VIEW ",     "CREATE OR REPLACE VIEW ">> }

\* One pass over the text, left to right: at each occurrence of one of the six
\* prefixes its rewritten form is emitted, every other character is copied.
RECURSIVE TableRewriteFrom(_, _)
TableRewriteFrom(s, i) ==
    LET hits == { j \in i..Len(s) : \E r \in RuleTable : HasPrefixAt(s, r[1], j) }
    IN  IF hits = {} THEN SubSeq(s, i, Len(s))
        ELSE LET j == CHOOSE j \in hits : \A k \in hits : j <= k
                 r == CHOOSE r \in RuleTable : HasPrefixAt(s, r[1], j)
             IN  SubSeq(s, i, j - 1) \o r[2] \o TableRewriteFrom(s, j + Len(r[1]))

TableRewrite(s) == TableRewriteFrom(s, 1)

\* C1 (as stated): for a readable input the rewriter returns no error and
\* outputs the input with every occurrence of the six prefixes replaced per
\* the rule table, everything else unchanged; an empty input yields an empty
\* output.
C1_RewritesPerTable_Original ==
    (rwPass >= 1 /\ rwIo.readOk) =>
        /\ rwErr = "nil"
        /\ rwOut = TableRewrite(rwIn)

\* C1 (amended): the rewriter returns an error exactly when reading the input
\* or writing the output fails; otherwise its output is the input with every
\* occurrence of the six prefixes replaced per the rule table and every other
\* character unchanged and in order, and an empty input yields an empty output.
C1_RewritesPerTable ==
    rwPass >= 1 =>
        /\ rwErr = "nil" <=> (rwIo.readOk /\ rwIo.writeOk)
        /\ rwErr = "nil" => rwOut = TableRewrite(rwIn)
        /\ (rwErr = "nil" /\ rwIn = "") => rwOut = ""
        /\ (rwErr = "nil" /\ rwIn = "CREATE TABLE public.customers (id SERIAL PRIMARY KEY);\n")
              => rwOut = "CREATE TABLE IF NOT EXISTS public.customers (id SERIAL PRIMARY KEY);\n"
        /\ (rwErr = "nil" /\ rwIn = "CREATE VIEW order_summary AS SELECT 1;\n")
              => rwOut = "CREATE OR REPLACE VIEW order_summary AS SELECT 1;\n"

C1_Witness ==
    /\ rwPass = 1
    /\ rwErr = "nil"
    /\ rwIn = "CREATE TABLE public.customers (id SERIAL PRIMARY KEY);\nCREATE VIEW order_summary AS SELECT 1;\n"
    /\ rwOut # rwIn

\* C2: rewriting is idempotent: a text that was rewritten (or is already in
\* rewritten form) passes through the rewriter unchanged.
C2_RewriteIdempotent ==
    (rwPass >= 2 /\ rwErr = "nil") => rwOut = rwIn

\* Whether a statement creates a schema, table, function, index, sequence or view.
CreatesObject(stmt) ==
    LET p == ParseStmt(stmt)
    IN  /\ p.isCreate
        /\ p.kind \in {"schema", "table", "function", "index", "sequence", "view"}

RepeatSafe(stmt) ==
    LET p == ParseStmt(stmt)
    IN  p.valid /\ (p.ifNotExists \/ p.orReplace)

\* C3: every statement of a rewritten raw dump that creates a schema, table,
\* function, index, sequence or view carries IF NOT EXISTS or OR REPLACE.
C3_AllCreationsRepeatSafe ==
    (rwPass = 1 /\ rwErr = "nil" /\ rwIn \in RawDumps) =>
        \A k \in 1..Len(Statements(rwOut)) :
            CreatesObject(Statements(rwOut)[k]) => RepeatSafe(Statements(rwOut)[k])

(***************************************************************************)
(* Claims about the schema handler                                         *)
(***************************************************************************)
Contains(s, sub) == IndexFrom(s, sub, 1) # 0

IsPrefix(s, t) == Len(s) <= Len(t) /\ \A i \in 1..Len(s) : s[i] = t[i]

\* The steps the current call has taken so far, in order.
StepsTaken == [i \in 1..Len(log) |-> log[i].step]

C5_DumpFailureStopsCall ==
    \A i \in 1..Len(log) :
        (log[i].step = "dump" /\ log[i].exit # 0) =>
            /\ pc = "idle"
            /\ Len(log) = 1
            /\ Contains(result, "pg_dump failed")
            /\ Contains(result, log[i].stderr)
            /\ target = targetAtCall

C5_Witness ==
    /\ call = "DumpAndRestoreSchema"
    /\ pc = "idle"
    /\ Len(log) = 1
    /\ log[1].tool = "pg_dump"
    /\ log[1].exit # 0
    /\ log[1].stderr # ""
    /\ target # {}
    /\ result # "nil"

\* C6: on every restore path the restore client is invoked only after the
\* reset was invoked earlier in the same call and returned no error; when the
\* reset returns an error the call returns that error wrapped, at once, and
\* nothing is restored.
C6_RestoreOnlyAfterReset ==
    /\ \A i \in 1..Len(log) :
          log[i].step = "restore" =>
              \E j \in 1..(i - 1) : log[j].step = "reset" /\ log[j].err = "nil"
    /\ pc = "restore" => \E j \in 1..Len(log) : log[j].step = "reset" /\ log[j].err = "nil"
    /\ \A i \in 1..Len(log) :
          (log[i].step = "reset" /\ log[i].err # "nil") =>
              /\ i = Len(log)
              /\ pc = "idle"
              /\ result = "failed to drop existing objects: " \o log[i].err

C6_Witness ==
    /\ call = "RestoreSchemaFromFile"
    /\ pc = "idle"
    /\ StepsTaken = <<"reset", "rewrite", "restore">>
    /\ log[1].tool = "psql"
    /\ log[1].err = "nil"
    /\ log[3].tool = "psql"
    /\ targetAtCall # {}
    /\ target # {}
    /\ result = "nil"

\* C7: when the server-side block aborts, dropExistingObjects returns an
\* error that carries the server's diagnostic text, and the call does not go
\* on to the restore.
C7_ResetAbortSurfaces ==
    \A i \in 1..Len(log) :
        (log[i].step = "reset" /\ log[i].aborted) =>
            /\ log[i].err # "nil"
            /\ Contains(log[i].err, log[i].stderr)
            /\ i = Len(log)
            /\ pc = "idle"

\* C8: after dropExistingObjects returned no error, its block having run to
\* completion, the target holds no user-created object.
C8_ResetLeavesNothing ==
    \A i \in 1..Len(resetRun) :
        (resetRun[i].ev.err = "nil" /\ ~resetRun[i].ev.aborted) =>
            resetRun[i].after = {}

\* C9: the reset invoked twice in a row against the same target succeeds both
\* times: the second invocation returns no error and leaves the target as it
\* found it.
C9_ResetTwice ==
    (Len(resetRun) = 2 /\ resetRun[1].ok /\ resetRun[2].ok) =>
        /\ resetRun[1].ev.err = "nil"
        /\ resetRun[2].ev.err = "nil"
        /\ resetRun[2].before = resetRun[1].after
        /\ resetRun[2].after = resetRun[2].before

C9_Witness ==
    /\ Len(resetRun) = 2
    /\ resetRun[1].ok
    /\ resetRun[2].ok
    /\ resetRun[1].before # {}
    /\ resetRun[2].before = {}
    /\ resetRun[2].ev.exit = 0
    /\ resetRun[2].ev.err = "nil"
    /\ target = {}

\* C10: DumpAndRestoreSchema run twice in succession from the same source
\* against an initially empty target (nothing failing in the environment)
\* succeeds both times, and the target holds the same objects after the
\* second run as after the first.
C10_TwiceSameResult ==
    (Len(done) = 2 /\ done[1].before = {}) =>
        /\ done[1].err = "nil"
        /\ done[2].err = "nil"
        /\ done[2].after = done[1].after

\* The object a statement of the script defines.
Defined(p) == Obj(p.kind, p.schema, p.name, p.on)

DefinedBefore(stmts, k) ==
    { Defined(ParseStmt(stmts[j])) : j \in { n \in 1..(k - 1) : ParseStmt(stmts[n]).isCreate } }

\* psql stopped at statement k of stmts: what the statements before k define
\* is in the target, and nothing else was added to what the target held.
HaltedAt(stmts, k) ==
    /\ DefinedBefore(stmts, k) \subseteq target
    /\ target \ beforeRestore \subseteq DefinedBefore(stmts, k)
    /\ beforeRestore \subseteq target

\* C11: when a statement of the script fails, psql halts there: the
\* statements before it stay applied, none after it is applied, and the
\* restore returns an error that carries psql's captured stderr.
C11_RestoreHaltsAtFirstError ==
    \A i \in 1..Len(log) :
        (log[i].step = "restore" /\ Contains(log[i].stderr, "ERROR:")) =>
            /\ log[i].exit # 0
            /\ log[i].err # "nil"
            /\ Contains(result, log[i].stderr)
            /\ \E k \in 1..Len(Statements(script)) : HaltedAt(Statements(script), k)

C11_Witness ==
    /\ call = "RestoreSchemaFromFile"
    /\ pc = "idle"
    /\ Len(log) = 3
    /\ log[3].step = "restore"
    /\ log[3].exit = 3
    /\ Contains(log[3].stderr, "syntax error")
    /\ Contains(script, "CREATE SEQUENCE IF NOT EXISTS public.seq")
    /\ TableCustomers \in target
    /\ TableCustomers \notin beforeRestore
    /\ SeqSeq \notin target

\* C12: the temporary directory, the dump file, the ".modified" file and the
\* drop script are gone when the call that made them has returned, whatever
\* it returned.
C12_TemporariesRemoved ==
    /\ pc = "idle" => tmp = {}
    /\ "dropScript" \notin tmp

C12_Witness ==
    /\ call = "RestoreSchemaFromFile"
    /\ pc = "idle"
    /\ result = "failed to open modified dump file"
    /\ Len(log) = 2
    /\ log[1].tool = "psql"
    /\ tmp = {}

\* The password an external tool needs: pg_dump talks to the source, psql to
\* the target.
PasswordFor(tool) == IF tool = "pg_dump" THEN SourceCfg.Password ELSE TargetCfg.Password

InSeq(seq, x) == \E n \in 1..Len(seq) : seq[n] = x

\* C13: every external invocation gets the password through PGPASSWORD in
\* the child's own environment and never in its arguments, and the
\* environment of the tool's own process stays as it was.
C13_PasswordOnlyInChildEnv ==
    /\ \A i \in 1..Len(log) :
          log[i].tool # "" =>
              /\ \A a \in 1..Len(log[i].args) :
                    /\ ~Contains(log[i].args[a], SourceCfg.Password)
                    /\ ~Contains(log[i].args[a], TargetCfg.Password)
              /\ InSeq(log[i].env, "PGPASSWORD=" \o PasswordFor(log[i].tool))
    /\ environ = Environ
    /\ \A n \in 1..Len(environ) : ~Contains(environ[n], "PGPASSWORD")

C13_Witness ==
    /\ call = "DumpAndRestoreSchema"
    /\ pc = "idle"
    /\ Len(log) = 4
    /\ log[1].tool = "pg_dump"
    /\ log[2].tool = "psql"
    /\ log[4].tool = "psql"
    /\ InSeq(log[1].env, "PGPASSWORD=source-secret")
    /\ InSeq(log[4].env, "PGPASSWORD=target-secret")

(***************************************************************************)
(* Claims about the replication setup and the command-line tool            *)
(***************************************************************************)
\* The place of x in seq (0: not in it).
IndexOf(seq, x) == IF InSeq(seq, x) THEN Least({ n \in 1..Len(seq) : seq[n] = x }) ELSE 0

\* C14: SetupReplication drops the publication before it creates it and the
\* subscription before it creates it, the publication being created before
\* the subscription; run again after a run that succeeded it succeeds, and a
\* run that succeeded leaves exactly the one publication and subscription.
C14_SetupReplicationRepeatable ==
    /\ InSeq(rlog, "createPub") =>
          /\ IndexOf(rlog, "dropPub") > 0
          /\ IndexOf(rlog, "dropPub") < IndexOf(rlog, "createPub")
    /\ InSeq(rlog, "createSub") =>
          /\ IndexOf(rlog, "dropSub") > 0
          /\ IndexOf(rlog, "dropSub") < IndexOf(rlog, "createSub")
          /\ IndexOf(rlog, "createPub") > 0
          /\ IndexOf(rlog, "createPub") < IndexOf(rlog, "createSub")
    /\ (Len(rdone) = 2 /\ rdone[1] = "ok" /\ rdone[2] # "fault") => rdone[2] = "ok"
    /\ (rdone # <<>> /\ rdone[Len(rdone)] = "ok") =>
          /\ repl.pubs = {PubName}
          /\ repl.subs = {SubName}

C14_Witness ==
    /\ Len(rdone) = 2
    /\ rdone[1] = "ok"
    /\ rdone[2] = "ok"
    /\ runs = 2
    /\ InSeq(rlog, "dropSub")
    /\ InSeq(rlog, "createSub")
    /\ repl.pubs = {PubName}
    /\ repl.subs = {SubName}
    /\ repl.slots = {SlotName}

\* C15: with --full-migration the schema is dumped, then restored, then
\* replication is set up; replication setup starts only after
\* DumpAndRestoreSchema returned no error, and when it returned an error the
\* run ends with no statement issued on publications or subscriptions.
C15_FullMigrationOrder ==
    (flags.full /\ mainPc # "none") =>
        /\ (mainPc = "fullRepl" \/ rlog # <<>>) =>
              /\ call = "DumpAndRestoreSchema"
              /\ pc = "idle"
              /\ result = "nil"
              /\ StepsTaken = <<"dump", "reset", "rewrite", "restore">>
        /\ (mainPc \in {"fullRepl", "exited"} /\ result # "nil") =>
              /\ mainPc = "exited"
              /\ exitCode = 1
              /\ rlog = <<>>

C15_Witness ==
    /\ flags.full
    /\ mainPc = "exited"
    /\ exitCode = 0
    /\ StepsTaken = <<"dump", "reset", "rewrite", "restore">>
    /\ rlog = ReplSteps
    /\ InSeq(out, "Full migration process completed successfully.")

\* Statements that would verify the data copy or the replication status.
VerifySteps == {"verifyCopy", "verifyStatus"}

\* C16: a full migration reports that it completed successfully only after
\* a verification of the data copy and of the replication status was made.
C16_FullMigrationVerifies ==
    InSeq(out, "Full migration process completed successfully.") =>
        \E n \in 1..Len(rlog) : rlog[n] \in VerifySteps

\* Whether the call at hand has touched the target.
TargetTouched == \E n \in 1..Len(log) : log[n].step \in {"reset", "restore"}

\* C20 (as stated): when --restore-schema is given without --schema-file the
\* tool ends with an error before any reset or restore is issued, and the
\* target is as it was.
C20_RestoreNeedsFile_Original ==
    (flags.restore /\ flags.file = "" /\ mainPc # "none") =>
        /\ ~TargetTouched
        /\ target = targetAtCall
        /\ mainPc = "exited" => exitCode = 1

\* C20 (amended): when --restore-schema is given without --schema-file and
\* without --full-migration, the tool ends with an error before any reset or
\* restore is issued, and the target is as it was.
C20_RestoreNeedsFile ==
    (flags.restore /\ flags.file = "" /\ ~flags.full /\ mainPc # "none") =>
        /\ ~TargetTouched
        /\ target = targetAtCall
        /\ mainPc \notin {"restoreWait", "repl", "end"}
        /\ mainPc = "exited" => exitCode = 1

C20_Witness ==
    /\ flags.restore
    /\ flags.file = ""
    /\ ~flags.full
    /\ ~flags.dump
    /\ mainPc = "exited"
    /\ exitCode = 1
    /\ InSeq(out, "Schema file path is required for restore operation. Use --schema-file flag.")
    /\ target # {}
    /\ target = targetAtCall

(***************************************************************************)
(* Connection descriptors: LoadSourceConfig and LoadTargetConfig take each *)
(* field from the argument, else from the environment, else a default, and *)
(* main passes its flags' values as the arguments.                         *)
(***************************************************************************)
DigitChars == "0123456789"

\* The value of a decimal digit (-1: no digit).
DigitOf(c) == Least({ d \in 1..Len(DigitChars) : SubSeq(DigitChars, d, d) = c }) - 1

RECURSIVE AtoiFrom(_, _, _)
AtoiFrom(s, i, acc) ==
    IF i > Len(s) THEN [val |-> acc, ok |-> TRUE]
    ELSE IF DigitOf(SubSeq(s, i, i)) < 0 THEN [val |-> 0, ok |-> FALSE]
    ELSE AtoiFrom(s, i + 1, acc * 10 + DigitOf(SubSeq(s, i, i)))

\* strconv.Atoi: an optional sign and at least one decimal digit.
Atoi(s) ==
    IF s = "" \/ s = "+" \/ s = "-" THEN [val |-> 0, ok |-> FALSE]
    ELSE IF SubSeq(s, 1, 1) = "-"
    THEN [val |-> 0 - AtoiFrom(s, 2, 0).val, ok |-> AtoiFrom(s, 2, 0).ok]
    ELSE IF SubSeq(s, 1, 1) = "+" THEN AtoiFrom(s, 2, 0)
    ELSE AtoiFrom(s, 1, 0)

\* %d of a number.
RECURSIVE Itoa(_)
Itoa(n) ==
    IF n < 0 THEN "-" \o Itoa(0 - n)
    ELSE IF n < 10 THEN SubSeq(DigitChars, n + 1, n + 1)
    ELSE Itoa(n \div 10) \o SubSeq(DigitChars, (n % 10) + 1, (n % 10) + 1)

DefaultPort == 5432

DefaultSSLMode == "require"

\* The sslmode a descriptor connects with.
ConnSSLMode(c) == IF c.SSLMode = "" THEN "require" ELSE c.SSLMode

ConnectionString(c) ==
    "host=" \o c.Host \o " port=" \o Itoa(c.Port) \o " user=" \o c.User
        \o " password=" \o c.Password \o " dbname=" \o c.Database
        \o " sslmode=" \o ConnSSLMode(c)

validateConfigNoDatabase(c) ==
    IF c.Host = "" THEN "database host is required"
    ELSE IF c.User = "" THEN "database user is required"
    ELSE IF c.Password = "" THEN "database password is required"
    ELSE "nil"

validateConfig(c) ==
    IF c.Host = "" THEN "database host is required"
    ELSE IF c.User = "" THEN "database user is required"
    ELSE IF c.Password = "" THEN "database password is required"
    ELSE IF c.Database = "" THEN "database name is required"
    ELSE "nil"

\* os.Getenv: the value of a variable, "" when it is not set.
Getenv(env, name) == env[name]

\* A text field: the argument, or the variable when the argument is empty.
FromEnvFirst(arg, env, name) == IF Getenv(env, name) # "" THEN Getenv(env, name) ELSE arg

FromEnv(arg, env, name) == IF arg = "" THEN Getenv(env, name) ELSE arg

\* The port: the argument, or the variable's number when the argument is 0
\* and the variable is set; ok is FALSE when the variable is no number.
PortFromEnv(port, env, name) ==
    IF port # 0 \/ Getenv(env, name) = "" THEN [val |-> port, ok |-> TRUE]
    ELSE Atoi(Getenv(env, name))

OrDefaultPort(port) == IF port = 0 THEN DefaultPort ELSE port

OrDefaultSSLMode(sslMode) == IF sslMode = "" THEN DefaultSSLMode ELSE sslMode

NoConfig == [Host |-> "", Port |-> 0, User |-> "", Password |-> "", Database |-> "",
             SSLMode |-> ""]

\* What a load returns: the descriptor (nil: FALSE) and the error.
Loaded(c, err) ==
    IF err = "nil" THEN [nil |-> FALSE, cfg |-> c, err |-> "nil"]
    ELSE [nil |-> TRUE, cfg |-> NoConfig, err |-> err]

LoadSourceConfig(host, port, user, password, database, sslMode, env) ==
    IF ~PortFromEnv(port, env, "SOURCE_DB_PORT").ok
    THEN Loaded(NoConfig, "invalid SOURCE_DB_PORT: strconv.Atoi: parsing: invalid syntax")
    ELSE Loaded([Host |-> FromEnv(host, env, "SOURCE_DB_HOST"),
                 Port |-> OrDefaultPort(PortFromEnv(port, env, "SOURCE_DB_PORT").val),
                 User |-> FromEnv(user, env, "SOURCE_DB_USER"),
                 Password |-> FromEnv(password, env, "SOURCE_DB_PASSWORD"),
                 Database |-> FromEnv(database, env, "SOURCE_DB_NAME"),
                 SSLMode |-> OrDefaultSSLMode(FromEnv(sslMode, env, "SOURCE_DB_SSLMODE"))],
                validateConfig([Host |-> FromEnv(host, env, "SOURCE_DB_HOST"),
                                User |-> FromEnv(user, env, "SOURCE_DB_USER"),
                                Password |-> FromEnv(password, env, "SOURCE_DB_PASSWORD"),
                                Database |-> FromEnv(database, env, "SOURCE_DB_NAME")]))

LoadTargetConfig(host, port, user, password, database, sslMode, env) ==
    IF ~PortFromEnv(port, env, "TARGET_DB_PORT").ok
    THEN Loaded(NoConfig, "invalid TARGET_DB_PORT: strconv.Atoi: parsing: invalid syntax")
    ELSE Loaded([Host |-> FromEnv(host, env, "TARGET_DB_HOST"),
                 Port |-> OrDefaultPort(PortFromEnv(port, env, "TARGET_DB_PORT").val),
                 User |-> FromEnv(user, env, "TARGET_DB_USER"),
                 Password |-> FromEnv(password, env, "TARGET_DB_PASSWORD"),
                 Database |-> FromEnv(database, env, "TARGET_DB_NAME"),
                 SSLMode |-> OrDefaultSSLMode(FromEnv(sslMode, env, "TARGET_DB_SSLMODE"))],
                validateConfig([Host |-> FromEnv(host, env, "TARGET_DB_HOST"),
                                User |-> FromEnv(user, env, "TARGET_DB_USER"),
                                Password |-> FromEnv(password, env, "TARGET_DB_PASSWORD"),
                                Database |-> FromEnv(database, env, "TARGET_DB_NAME")]))

\* The value flag.String leaves for an SSL mode flag: the default "require"
\* when the flag is not on the command line.
SSLModeFlag(a) == IF a.sslGiven THEN a.sslMode ELSE "require"

\* The arguments of one side: text fields ("": none), the port (0: none) and
\* whether the SSL mode flag is on the command line.
SideArgs ==
    [host : {"", "db.example.com"}, port : {0, 6432}, user : {"", "admin"},
     password : {"", "secret"}, database : {"", "shop"},
     sslMode : {"", "disable"}, sslGiven : BOOLEAN]

\* The side that is not varied: no argument, and every variable but the port.
FewArgs ==
    { a \in SideArgs : /\ a.host = "" /\ a.user = "" /\ a.password = "" /\ a.database = ""
                       /\ a.port = 0 /\ a.sslMode = "" /\ ~a.sslGiven }

\* The variables of one side: HOST, PORT, USER, PASSWORD, NAME, SSLMODE.
SideEnv ==
    [HOST : {"", "env.example.com"}, PORT : {"", "6543", "0", "abc"},
     USER : {"", "envuser"}, PASSWORD : {"", "envsecret"}, NAME : {"", "envdb"},
     SSLMODE : {"", "verify-full"}]

FewEnv ==
    { e \in SideEnv : /\ e.HOST = "env.example.com" /\ e.PORT = "" /\ e.USER = "envuser"
                      /\ e.PASSWORD = "envsecret" /\ e.NAME = "envdb"
                      /\ e.SSLMODE = "verify-full" }

\* The process environment made of the two sides' variables.
EnvOf(se, te) ==
    [SOURCE_DB_HOST |-> se.HOST, SOURCE_DB_PORT |-> se.PORT, SOURCE_DB_USER |-> se.USER,
     SOURCE_DB_PASSWORD |-> se.PASSWORD, SOURCE_DB_NAME |-> se.NAME,
     SOURCE_DB_SSLMODE |-> se.SSLMODE,
     TARGET_DB_HOST |-> te.HOST, TARGET_DB_PORT |-> te.PORT, TARGET_DB_USER |-> te.USER,
     TARGET_DB_PASSWORD |-> te.PASSWORD, TARGET_DB_NAME |-> te.NAME,
     TARGET_DB_SSLMODE |-> te.SSLMODE]

\* What a load is given: one side takes every combination, the other a few.
CfgInputs ==
    { [src |-> sa, tgt |-> ta, env |-> EnvOf(se, te)] :
        sa \in SideArgs, se \in SideEnv, ta \in FewArgs, te \in FewEnv }
    \cup
    { [src |-> sa, tgt |-> ta, env |-> EnvOf(se, te)] :
        sa \in FewArgs, se \in FewEnv, ta \in SideArgs, te \in SideEnv }

CfgInit ==
    /\ cfgIn \in CfgInputs
    /\ cfgOut = NoLoad
    /\ ShIdle /\ RewriteIdle /\ MainIdle /\ ReplIdle

\* A caller of the package loads the source descriptor.
CallLoadSourceConfig ==
    /\ cfgOut = NoLoad
    /\ cfgOut' = [side |-> "source", via |-> "package",
                  source |-> LoadSourceConfig(cfgIn.src.host, cfgIn.src.port, cfgIn.src.user,
                                              cfgIn.src.password, cfgIn.src.database,
                                              cfgIn.src.sslMode, cfgIn.env)]
    /\ UNCHANGED <<cfgIn, rwVars, shVars, mainVars, replVars>>

\* A caller of the package loads the target descriptor.
CallLoadTargetConfig ==
    /\ cfgOut = NoLoad
    /\ cfgOut' = [side |-> "target", via |-> "package",
                  target |-> LoadTargetConfig(cfgIn.tgt.host, cfgIn.tgt.port, cfgIn.tgt.user,
                                              cfgIn.tgt.password, cfgIn.tgt.database,
                                              cfgIn.tgt.sslMode, cfgIn.env)]
    /\ UNCHANGED <<cfgIn, rwVars, shVars, mainVars, replVars>>

\* How main's loading ends, given what the two loads return: log.Fatalf on
\* the first error, the target not being loaded after a source error.
MainLoaded(s, t) ==
    IF s.err # "nil"
    THEN [side |-> "both", via |-> "main", source |-> s, targetLoaded |-> FALSE,
          target |-> Loaded(NoConfig, "not loaded"), exitCode |-> 1,
          out |-> "Failed to load source configuration: " \o s.err]
    ELSE IF t.err # "nil"
    THEN [side |-> "both", via |-> "main", source |-> s, targetLoaded |-> TRUE,
          target |-> t, exitCode |-> 1,
          out |-> "Failed to load target configuration: " \o t.err]
    ELSE [side |-> "both", via |-> "main", source |-> s, targetLoaded |-> TRUE,
          target |-> t, exitCode |-> -1, out |-> ""]

\* main parses its flags and loads the two descriptors.
MainLoadsConfig ==
    /\ cfgOut = NoLoad
    /\ cfgOut' = MainLoaded(
                    LoadSourceConfig(cfgIn.src.host, cfgIn.src.port, cfgIn.src.user,
                                     cfgIn.src.password, cfgIn.src.database,
                                     SSLModeFlag(cfgIn.src), cfgIn.env),
                    LoadTargetConfig(cfgIn.tgt.host, cfgIn.tgt.port, cfgIn.tgt.user,
                                     cfgIn.tgt.password, cfgIn.tgt.database,
                                     SSLModeFlag(cfgIn.tgt), cfgIn.env))
    /\ UNCHANGED <<cfgIn, rwVars, shVars, mainVars, replVars>>

CfgNext ==
    \/ CallLoadSourceConfig
    \/ CallLoadTargetConfig
    \/ MainLoadsConfig

SpecConfig == CfgInit /\ [][CfgNext]_vars

(***************************************************************************)
(* Claims about the connection descriptors                                 *)
(***************************************************************************)
Sides == {"source", "target"}

\* Whether the state holds what a load of that side returned.
WasLoaded(side) ==
    /\ cfgOut.side \in {side, "both"}
    /\ (cfgOut.side = "both" /\ side = "target") => cfgOut.targetLoaded

\* The arguments that load was called with.
ArgsGiven(side) ==
    IF side = "source"
    THEN [cfgIn.src EXCEPT !.sslMode = IF cfgOut.via = "main" THEN SSLModeFlag(cfgIn.src) ELSE @]
    ELSE [cfgIn.tgt EXCEPT !.sslMode = IF cfgOut.via = "main" THEN SSLModeFlag(cfgIn.tgt) ELSE @]

\* The variables of that side.
EnvGiven(side) ==
    IF side = "source"
    THEN [HOST |-> cfgIn.env.SOURCE_DB_HOST, PORT |-> cfgIn.env.SOURCE_DB_PORT,
          USER |-> cfgIn.env.SOURCE_DB_USER, PASSWORD |-> cfgIn.env.SOURCE_DB_PASSWORD,
          NAME |-> cfgIn.env.SOURCE_DB_NAME, SSLMODE |-> cfgIn.env.SOURCE_DB_SSLMODE]
    ELSE [HOST |-> cfgIn.env.TARGET_DB_HOST, PORT |-> cfgIn.env.TARGET_DB_PORT,
          USER |-> cfgIn.env.TARGET_DB_USER, PASSWORD |-> cfgIn.env.TARGET_DB_PASSWORD,
          NAME |-> cfgIn.env.TARGET_DB_NAME, SSLMODE |-> cfgIn.env.TARGET_DB_SSLMODE]

ResultOf(side) == IF side = "source" THEN cfgOut.source ELSE cfgOut.target

\* Argument first, then variable.
Pick(arg, var) == IF arg # "" THEN arg ELSE var

EndsWith(s, suffix) ==
    /\ Len(s) >= Len(suffix)
    /\ SubSeq(s, Len(s) - Len(suffix) + 1, Len(s)) = suffix

\* What C17 says of every field but the port, for a descriptor c loaded
\* from arguments a and variables e.
TextFieldsResolved(a, e, c) ==
    /\ c.Host = Pick(a.host, e.HOST)
    /\ c.User = Pick(a.user, e.USER)
    /\ c.Password = Pick(a.password, e.PASSWORD)
    /\ c.Database = Pick(a.database, e.NAME)
    /\ c.SSLMode = Pick(Pick(a.sslMode, e.SSLMODE), "require")
    /\ c.SSLMode # ""
    /\ c.Port # 0
    /\ ~EndsWith(ConnectionString(c), "sslmode=")
    /\ EndsWith(ConnectionString([c EXCEPT !.SSLMode = ""]), "sslmode=require")

\* C17 (as stated): a loaded descriptor has in every field the argument if
\* one was given, else the value of the matching variable if it is set, else
\* the default (port 5432, SSL mode "require"); its SSL mode is never empty,
\* its port never zero, and ConnectionString never emits an empty sslmode.
C17_ArgThenEnvThenDefault_Original ==
    \A side \in Sides :
        (WasLoaded(side) /\ ~ResultOf(side).nil) =>
            /\ TextFieldsResolved(ArgsGiven(side), EnvGiven(side), ResultOf(side).cfg)
            /\ ResultOf(side).cfg.Port =
                  IF ArgsGiven(side).port # 0 THEN ArgsGiven(side).port
                  ELSE IF EnvGiven(side).PORT # "" THEN Atoi(EnvGiven(side).PORT).val
                  ELSE 5432

\* C17 (amended): as stated, except that a port variable whose value is 0
\* counts as absent: the port is then 5432.
C17_ArgThenEnvThenDefault ==
    \A side \in Sides :
        (WasLoaded(side) /\ ~ResultOf(side).nil) =>
            /\ TextFieldsResolved(ArgsGiven(side), EnvGiven(side), ResultOf(side).cfg)
            /\ ResultOf(side).cfg.Port =
                  IF ArgsGiven(side).port # 0 THEN ArgsGiven(side).port
                  ELSE IF EnvGiven(side).PORT # "" /\ Atoi(EnvGiven(side).PORT).val # 0
                  THEN Atoi(EnvGiven(side).PORT).val
                  ELSE 5432

C17_Witness ==
    /\ cfgOut.side = "source"
    /\ ~cfgOut.source.nil
    /\ cfgIn.src.host = "db.example.com" /\ cfgIn.env.SOURCE_DB_HOST = "env.example.com"
    /\ cfgOut.source.cfg.Host = "db.example.com"
    /\ cfgIn.src.user = "" /\ cfgOut.source.cfg.User = "envuser"
    /\ cfgIn.src.port = 0 /\ cfgIn.env.SOURCE_DB_PORT = "0"
    /\ cfgOut.source.cfg.Port = 5432
    /\ cfgIn.src.sslMode = "" /\ cfgIn.env.SOURCE_DB_SSLMODE = ""
    /\ cfgOut.source.cfg.SSLMode = "require"

\* C18: a load returns an error and no descriptor exactly when, after the
\* resolution, the host, user, password or database is empty, or the port
\* argument is 0 and the port variable is set to something that is no
\* integer; otherwise it returns a descriptor with all four non-empty.
C18_ErrorExactlyWhenIncomplete ==
    \A side \in Sides :
        WasLoaded(side) =>
            /\ ResultOf(side).nil <=> ResultOf(side).err # "nil"
            /\ ResultOf(side).nil <=>
                  \/ Pick(ArgsGiven(side).host, EnvGiven(side).HOST) = ""
                  \/ Pick(ArgsGiven(side).user, EnvGiven(side).USER) = ""
                  \/ Pick(ArgsGiven(side).password, EnvGiven(side).PASSWORD) = ""
                  \/ Pick(ArgsGiven(side).database, EnvGiven(side).NAME) = ""
                  \/ /\ ArgsGiven(side).port = 0
                     /\ EnvGiven(side).PORT \notin {"", "0", "6543"}
            /\ ~ResultOf(side).nil =>
                  /\ ResultOf(side).cfg.Host # ""
                  /\ ResultOf(side).cfg.User # ""
                  /\ ResultOf(side).cfg.Password # ""
                  /\ ResultOf(side).cfg.Database # ""

C18_Witness ==
    /\ cfgOut.side = "target"
    /\ cfgOut.target.nil
    /\ cfgOut.target.err = "database name is required"
    /\ cfgOut.target.cfg = NoConfig
    /\ cfgIn.tgt.host # "" /\ cfgIn.tgt.user # "" /\ cfgIn.env.TARGET_DB_PASSWORD # ""
    /\ cfgIn.tgt.database = "" /\ cfgIn.env.TARGET_DB_NAME = ""
    /\ cfgIn.env.TARGET_DB_PORT = "6543"

\* C19: when the tool is run without the SSL mode flag of an endpoint and
\* SOURCE_DB_SSLMODE / TARGET_DB_SSLMODE is set, the descriptor main uses
\* for that endpoint has the variable's value as its SSL mode.
C19_SSLModeFromEnvironment ==
    \A side \in Sides :
        (/\ WasLoaded(side)
         /\ cfgOut.via = "main"
         /\ ~ResultOf(side).nil
         /\ ~(IF side = "source" THEN cfgIn.src.sslGiven ELSE cfgIn.tgt.sslGiven)
         /\ EnvGiven(side).SSLMODE # "")
        => ResultOf(side).cfg.SSLMode = EnvGiven(side).SSLMODE

(***************************************************************************)
(* Claims about the reset's enumeration, the stream-based variants, the    *)
(* order of RestoreSchemaFromFile and the wal_level query                  *)
(***************************************************************************)
\* The schemas the claim exempts from the reset: the default schema,
\* information_schema, and names that begin with the three characters pg_ .
ExemptSchema(name) ==
    \/ name = "public"
    \/ name = "information_schema"
    \/ HasPrefixAt(name, "pg_", 1)

\* C21: a reset whose block ran to completion drops exactly the schemas that
\* are neither public, nor information_schema, nor named with the literal
\* prefix pg_ : every other schema, pgdata included, is gone afterwards.
C21_DropsAllButReservedSchemas ==
    \A i \in 1..Len(resetRun) :
        (resetRun[i].ev.err = "nil" /\ ~resetRun[i].ev.aborted) =>
            \A o \in resetRun[i].before :
                o.kind = "schema" =>
                    (o \notin resetRun[i].after <=> ~ExemptSchema(o.name))

\* The dump invocation of dumpSchema without its output sink (-f path).
FileDumpOptions ==
    ConnArgs(SourceCfg) \o <<"--schema-only", "--no-owner", "--no-privileges">>

\* C22: for the same descriptors, DumpSchemaToWriter runs pg_dump with the
\* options and the environment of dumpSchema (the sink apart), and
\* RestoreSchemaFromReader makes the reset, the rewriting and the psql
\* invocation of RestoreSchemaFromFile (the origin of the script apart).
C22_StreamVariantsEquivalent ==
    \A i \in 1..Len(log) :
        /\ (call = "DumpSchemaToWriter" /\ log[i].step = "dump") =>
              /\ log[i].args = FileDumpOptions
              /\ log[i].env = CmdEnv(SourceCfg)
        /\ (call = "RestoreSchemaFromReader" /\ log[i].step = "reset"
                /\ log[i].tool = "psql") =>
              /\ log[i].args = ResetArgs("drop-objects.sql")
              /\ log[i].env = CmdEnv(TargetCfg)
        /\ (call = "RestoreSchemaFromReader" /\ log[i].step = "rewrite"
                /\ log[i].err = "nil" /\ i = Len(log)) =>
              script = processSchemaFile(schemaFile.content, TRUE, TRUE).out
        /\ (call = "RestoreSchemaFromReader" /\ log[i].step = "restore") =>
              /\ log[i].args = RestoreArgs
              /\ log[i].env = CmdEnv(TargetCfg)

\* The call at hand began with a reset that psql ran and that returned no
\* error.
ResetCameFirst ==
    /\ log # <<>>
    /\ log[1].step = "reset"
    /\ log[1].tool = "psql"
    /\ log[1].exit = 0
    /\ log[1].err = "nil"

\* RestoreSchemaFromFile returned because the file could not be opened or
\* its ".modified" copy could not be created.
FileNotUsable ==
    /\ call = "RestoreSchemaFromFile"
    /\ pc = "idle"
    /\ \/ Contains(result, "failed to open dump file")
       \/ Contains(result, "failed to create modified dump file")

\* What C23 says of a state.
RestoreFromFileResetsFirst ==
    call = "RestoreSchemaFromFile" =>
        /\ \A i \in 1..Len(log) :
              log[i].step \in {"rewrite", "restore"} => (i > 1 /\ ResetCameFirst)
        /\ FileNotUsable =>
              /\ ResetCameFirst
              /\ Len(log) = 2
              /\ log[2].step = "rewrite"
              /\ resetRun # <<>>
              /\ resetRun[Len(resetRun)].before = targetAtCall
              /\ target = resetRun[Len(resetRun)].after

\* C23: RestoreSchemaFromFile resets the target before it opens the schema
\* file: when the file cannot be opened or its ".modified" copy cannot be
\* created, the error is returned after the reset has run, the target is as
\* the reset left it and nothing is restored; and no step of the call
\* changes the schema file it was given.
C23_ResetBeforeFileIsOpened ==
    /\ []RestoreFromFileResetsFirst
    /\ [][(call = "RestoreSchemaFromFile" /\ call' = call /\ pc # "idle")
            => schemaFile' = schemaFile]_vars

C23_Witness ==
    /\ FileNotUsable
    /\ schemaFile = MissingFile
    /\ result = "failed to open dump file"
    /\ Len(log) = 2
    /\ targetAtCall # {}
    /\ target # targetAtCall
    /\ TableCustomers \in targetAtCall
    /\ TableCustomers \notin target

\* The wal_level values a target may report.
WalLevels == {"logical", "replica", "minimal"}

\* C24: the wal_level the target reports does not influence
\* SetupReplication: a run that reached the wal_level query either ended
\* there because the query itself failed, or went on to drop and then (the
\* drop succeeding) create the subscription; and with any other reported
\* value a run about to be made returns the same error and issues the same
\* statements.
C24_WalLevelIgnored ==
    /\ InSeq(rlog, "wal") =>
          IF rlog[Len(rlog)] = "wal"
          THEN /\ rdone # <<>>
               /\ rdone[Len(rdone)] = "fault"
          ELSE /\ rlog[IndexOf(rlog, "wal") + 1] = "dropSub"
               /\ Len(rlog) > IndexOf(rlog, "wal") + 1 =>
                     rlog[IndexOf(rlog, "wal") + 2] = "createSub"
    /\ mainPc \in {"repl", "fullRepl"} => \A w \in WalLevels, fault \in ReplFaults :
          /\ SetupReplication([repl EXCEPT !.wal = w], fault).err
                = SetupReplication(repl, fault).err
          /\ SetupReplication([repl EXCEPT !.wal = w], fault).log
                = SetupReplication(repl, fault).log

C24_Witness ==
    /\ repl.wal = "replica"
    /\ InSeq(rlog, "wal")
    /\ rlog[Len(rlog)] = "createSub"
    /\ rdone # <<>>
    /\ rdone[Len(rdone)] = "ok"
    /\ SubName \in repl.subs

=============================================================================
